---------------------------- MODULE Spec2Model ----------------------------
(***************************************************************************)
(* AquaFuzzy Analytics: the Mamdani fuzzy inference controller             *)
(* (fuzzy-logic engine, src/unnamed/part_007) and the Fuzzy C-Means solver *)
(* with its cluster analytics (src/unnamed/part_008).                      *)
(*                                                                         *)
(* Numbers.  A JavaScript number is modelled as a rational <<n, d>> in     *)
(* lowest terms with d > 0.  The fuzzy engine and analyzeRisk work on      *)
(* exact rationals.  The FCM solver, whose quantities do not stay          *)
(* representable under iteration, rounds the result of every division and  *)
(* multiplication to the nearest multiple of 1/Scale (Fl), the model's     *)
(* stand-in for IEEE rounding.                                             *)
(***************************************************************************)
EXTENDS Integers, Sequences, FiniteSets, TLC

VARIABLES
    (* calculateMembership call: the set, the value, the degree returned *)
    mSet, mValue, mResult,
    (* fuzzy engine: the module-level rule base and set catalogues, and the
       runFuzzyInference calls made so far, each with what it returned *)
    ruleBase, catalogues, fisLog,
    (* analyzeRisk call: the membership row and the analysis returned *)
    rRow, rResult,
    (* runFCM call: its arguments, where the call stands, the outcome of
       the random shuffle (the data indices taken as seeds), the locals of
       the function, every pass's maxChange, and what the call returned or
       threw *)
    data, config, pc, seeds,
    centroids, memberships, prevMemberships, iteration, converged,
    iterationHistory, passLog, fcmResult, fcmError,
    (* diagnostics store (useDiagnosticsStore): its data, configuration,
       result and animation fields, the runClustering callbacks waiting in
       the timer queue (each with the dataPoints and config it captured) and
       the number of CSV files whose parse has not completed, and how the
       last callback that ran ended; the selection,
       hover, tour, feature-name and cluster-name fields, which none of these
       handlers reads, are left out *)
    dataPoints, isLoadingData, dataSource, storeConfig, storeResult, isRunning,
    processedPoints, animation, timers, imports, lastCallback,
    (* water store (useWaterStore): its fields; the history points are kept
       without their timestamp, a reading of the clock no handler uses *)
    waterTurbidity, waterPh, waterTemperature, fuzzyOutputs, waterMemberships, isSimulating,
    currentScenario, simulationStartTime, simulationElapsedTime, simulationSpeed,
    waterHistory, maxHistoryLength

memVars  == <<mSet, mValue, mResult>>
fisVars  == <<ruleBase, catalogues, fisLog>>
riskVars == <<rRow, rResult>>
fcmVars  == <<data, config, pc, seeds, centroids, memberships, prevMemberships,
              iteration, converged, iterationHistory, passLog, fcmResult, fcmError>>
diagVars == <<dataPoints, isLoadingData, dataSource, storeConfig, storeResult, isRunning,
              processedPoints, animation, timers, imports, lastCallback>>
waterVars == <<waterTurbidity, waterPh, waterTemperature, fuzzyOutputs, waterMemberships, isSimulating,
               currentScenario, simulationStartTime, simulationElapsedTime,
               simulationSpeed, waterHistory, maxHistoryLength>>
appVars  == <<diagVars, waterVars>>
vars     == <<memVars, fisVars, riskVars, fcmVars, appVars>>

None == "none"
\* no number (yet)
NoNumber == <<>>
\* null where the other values are records
Null == <<>>

(***************************************************************************)
(* Rational arithmetic                                                     *)
(***************************************************************************)
Abs(n) == IF n < 0 THEN -n ELSE n

RECURSIVE GCD(_, _)
GCD(a, b) == IF b = 0 THEN a ELSE GCD(b, a % b)

\* the rational n/d (d # 0) in lowest terms with a positive denominator
Rat(n, d) ==
    LET g == GCD(Abs(n), Abs(d))
        s == IF d < 0 THEN -1 ELSE 1
    IN  <<(s * n) \div g, (s * d) \div g>>

Num(n) == <<n, 1>>
Zero == Num(0)
One  == Num(1)

\* the two numbers that are no rationals; NaN makes NaN of every sum,
\* product and quotient, and false of every comparison
NaN == <<0, 0>>
Infinity == <<1, 0>>

RAdd(x, y) ==
    IF x = NaN \/ y = NaN THEN NaN
    ELSE LET g == GCD(x[2], y[2])
         IN  Rat(x[1] * (y[2] \div g) + y[1] * (x[2] \div g), (x[2] \div g) * y[2])
RNeg(x) == <<-x[1], x[2]>>
RSub(x, y) == RAdd(x, RNeg(y))
RMul(x, y) ==
    IF x = NaN \/ y = NaN THEN NaN
    ELSE LET g1 == GCD(Abs(x[1]), y[2])
             g2 == GCD(Abs(y[1]), x[2])
         IN  Rat((x[1] \div g1) * (y[1] \div g2), (x[2] \div g2) * (y[2] \div g1))
\* x / y for y # 0
RDiv(x, y) == RMul(x, IF y[1] > 0 THEN <<y[2], y[1]>> ELSE <<-y[2], -y[1]>>)
RLt(x, y) == x[1] * y[2] < y[1] * x[2]
RLe(x, y) == x # NaN /\ y # NaN /\ x[1] * y[2] <= y[1] * x[2]
RAbs(x) == <<Abs(x[1]), x[2]>>
\* Math.max and Math.min: NaN when an argument is NaN
RMax(x, y) == IF x = NaN \/ y = NaN THEN NaN ELSE IF RLt(x, y) THEN y ELSE x
RMin(x, y) == IF x = NaN \/ y = NaN THEN NaN ELSE IF RLt(y, x) THEN y ELSE x
\* Math.round: the nearest integer, a tie going up
MathRound(x) == (2 * x[1] + x[2]) \div (2 * x[2])

(***************************************************************************)
(* Membership model (part_007)                                             *)
(***************************************************************************)
\* a mutation of calculateMembership: the plateau test comes first
calculateMembershipPlateauFirst(value, set) ==
    LET a == set.points[1]
        b == set.points[2]
        c == set.points[3]
        d == set.points[4]
    IN  IF RLe(b, value) /\ RLe(value, c) THEN One
        ELSE IF RLe(value, a) \/ RLe(d, value) THEN Zero
        ELSE IF RLt(a, value) /\ RLt(value, b)
             THEN RDiv(RSub(value, a), RSub(b, a))
        ELSE IF RLt(c, value) /\ RLt(value, d)
             THEN RDiv(RSub(d, value), RSub(d, c))
        ELSE Zero

calculateMembership(value, set) ==
    LET a == set.points[1]
        b == set.points[2]
        c == set.points[3]
        d == set.points[4]
    IN  IF RLe(value, a) \/ RLe(d, value) THEN Zero
        ELSE IF RLe(b, value) /\ RLe(value, c) THEN One
        ELSE IF RLt(a, value) /\ RLt(value, b)
             THEN RDiv(RSub(value, a), RSub(b, a))
        ELSE IF RLt(c, value) /\ RLt(value, d)
             THEN RDiv(RSub(d, value), RSub(d, c))
        ELSE Zero

(***************************************************************************)
(* Fuzzy sets and rule base (part_007)                                     *)
(***************************************************************************)
TURBIDITY_SETS == <<
    [name |-> "muy_baja", points |-> <<Num(0), Num(0), Num(5), Num(15)>>],
    [name |-> "baja", points |-> <<Num(10), Num(20), Num(40), Num(60)>>],
    [name |-> "media", points |-> <<Num(50), Num(80), Num(150), Num(200)>>],
    [name |-> "alta", points |-> <<Num(150), Num(250), Num(400), Num(500)>>],
    [name |-> "muy_alta", points |-> <<Num(400), Num(600), Num(1000), Num(1000)>>]
>>

PH_SETS == <<
    [name |-> "muy_acido", points |-> <<Num(0), Num(0), Num(4), Rat(55, 10)>>],
    [name |-> "acido", points |-> <<Num(5), Rat(55, 10), Num(6), Rat(65, 10)>>],
    [name |-> "neutro", points |-> <<Rat(62, 10), Rat(68, 10), Rat(75, 10), Rat(82, 10)>>],
    [name |-> "alcalino", points |-> <<Rat(78, 10), Rat(85, 10), Num(9), Rat(95, 10)>>],
    [name |-> "muy_alcalino", points |-> <<Num(9), Num(10), Num(14), Num(14)>>]
>>

TEMPERATURE_SETS == <<
    [name |-> "fria", points |-> <<Num(0), Num(0), Num(10), Num(18)>>],
    [name |-> "normal", points |-> <<Num(15), Num(20), Num(25), Num(28)>>],
    [name |-> "calida", points |-> <<Num(25), Num(30), Num(40), Num(40)>>]
>>

DOSE_SETS == <<
    [name |-> "muy_baja", points |-> <<Num(0), Num(0), Num(5), Num(12)>>],
    [name |-> "baja", points |-> <<Num(8), Num(15), Num(22), Num(28)>>],
    [name |-> "media", points |-> <<Num(25), Num(35), Num(45), Num(55)>>],
    [name |-> "alta", points |-> <<Num(50), Num(60), Num(75), Num(85)>>],
    [name |-> "muy_alta", points |-> <<Num(80), Num(90), Num(100), Num(100)>>]
>>

TIME_SETS == <<
    [name |-> "muy_corto", points |-> <<Num(0), Num(0), Num(8), Num(12)>>],
    [name |-> "corto", points |-> <<Num(10), Num(14), Num(18), Num(22)>>],
    [name |-> "medio", points |-> <<Num(20), Num(25), Num(32), Num(38)>>],
    [name |-> "largo", points |-> <<Num(35), Num(42), Num(50), Num(55)>>],
    [name |-> "muy_largo", points |-> <<Num(50), Num(55), Num(60), Num(60)>>]
>>

FUZZY_RULES == <<
    [id |-> 1, name |-> "Agua cristalina - Condiciones optimas",
     conditions |-> [turbidity |-> "muy_baja", ph |-> "neutro"],
     outputs |-> [dose |-> "muy_baja", time |-> "muy_corto", phCorrection |-> "none"],
     baseCost |-> Rat(5, 100)],
    [id |-> 2, name |-> "Agua limpia - pH acido leve",
     conditions |-> [turbidity |-> "muy_baja", ph |-> "acido"],
     outputs |-> [dose |-> "baja", time |-> "corto", phCorrection |-> "slight"],
     baseCost |-> Rat(8, 100)],
    [id |-> 3, name |-> "Agua limpia - pH alcalino leve",
     conditions |-> [turbidity |-> "muy_baja", ph |-> "alcalino"],
     outputs |-> [dose |-> "baja", time |-> "corto", phCorrection |-> "slight"],
     baseCost |-> Rat(8, 100)],
    [id |-> 4, name |-> "Agua baja turbidez - Condiciones normales",
     conditions |-> [turbidity |-> "baja", ph |-> "neutro"],
     outputs |-> [dose |-> "baja", time |-> "corto", phCorrection |-> "none"],
     baseCost |-> Rat(10, 100)],
    [id |-> 5, name |-> "Turbidez media - pH neutro optimo",
     conditions |-> [turbidity |-> "media", ph |-> "neutro"],
     outputs |-> [dose |-> "media", time |-> "medio", phCorrection |-> "none"],
     baseCost |-> Rat(18, 100)],
    [id |-> 6, name |-> "Turbidez media - pH acido",
     conditions |-> [turbidity |-> "media", ph |-> "acido"],
     outputs |-> [dose |-> "media", time |-> "medio", phCorrection |-> "moderate"],
     baseCost |-> Rat(22, 100)],
    [id |-> 7, name |-> "Turbidez media - pH alcalino",
     conditions |-> [turbidity |-> "media", ph |-> "alcalino"],
     outputs |-> [dose |-> "alta", time |-> "medio", phCorrection |-> "slight"],
     baseCost |-> Rat(24, 100)],
    [id |-> 8, name |-> "Turbidez media - Agua fria",
     conditions |-> [turbidity |-> "media", temperature |-> "fria"],
     outputs |-> [dose |-> "alta", time |-> "largo", phCorrection |-> "none"],
     baseCost |-> Rat(25, 100)],
    [id |-> 9, name |-> "Alta turbidez - pH neutro",
     conditions |-> [turbidity |-> "alta", ph |-> "neutro"],
     outputs |-> [dose |-> "alta", time |-> "largo", phCorrection |-> "none"],
     baseCost |-> Rat(35, 100)],
    [id |-> 10, name |-> "Alta turbidez - pH acido",
     conditions |-> [turbidity |-> "alta", ph |-> "acido"],
     outputs |-> [dose |-> "alta", time |-> "largo", phCorrection |-> "moderate"],
     baseCost |-> Rat(42, 100)],
    [id |-> 11, name |-> "Alta turbidez - pH alcalino",
     conditions |-> [turbidity |-> "alta", ph |-> "alcalino"],
     outputs |-> [dose |-> "muy_alta", time |-> "largo", phCorrection |-> "moderate"],
     baseCost |-> Rat(45, 100)],
    [id |-> 12, name |-> "Alta turbidez - Agua fria",
     conditions |-> [turbidity |-> "alta", temperature |-> "fria"],
     outputs |-> [dose |-> "muy_alta", time |-> "muy_largo", phCorrection |-> "none"],
     baseCost |-> Rat(48, 100)],
    [id |-> 13, name |-> "Emergencia - Turbidez extrema, pH neutro",
     conditions |-> [turbidity |-> "muy_alta", ph |-> "neutro"],
     outputs |-> [dose |-> "muy_alta", time |-> "muy_largo", phCorrection |-> "none"],
     baseCost |-> Rat(55, 100)],
    [id |-> 14, name |-> "Emergencia - Turbidez extrema, pH acido severo",
     conditions |-> [turbidity |-> "muy_alta", ph |-> "muy_acido"],
     outputs |-> [dose |-> "muy_alta", time |-> "muy_largo", phCorrection |-> "intense"],
     baseCost |-> Rat(75, 100)],
    [id |-> 15, name |-> "Emergencia - Turbidez extrema, pH alcalino severo",
     conditions |-> [turbidity |-> "muy_alta", ph |-> "muy_alcalino"],
     outputs |-> [dose |-> "muy_alta", time |-> "muy_largo", phCorrection |-> "intense"],
     baseCost |-> Rat(72, 100)],
    [id |-> 16, name |-> "Vertido acido - Turbidez baja",
     conditions |-> [turbidity |-> "baja", ph |-> "muy_acido"],
     outputs |-> [dose |-> "media", time |-> "medio", phCorrection |-> "intense"],
     baseCost |-> Rat(38, 100)],
    [id |-> 17, name |-> "Vertido alcalino - Turbidez baja",
     conditions |-> [turbidity |-> "baja", ph |-> "muy_alcalino"],
     outputs |-> [dose |-> "media", time |-> "medio", phCorrection |-> "intense"],
     baseCost |-> Rat(35, 100)],
    [id |-> 18, name |-> "Vertido acido - Turbidez media",
     conditions |-> [turbidity |-> "media", ph |-> "muy_acido"],
     outputs |-> [dose |-> "alta", time |-> "largo", phCorrection |-> "intense"],
     baseCost |-> Rat(52, 100)],
    [id |-> 19, name |-> "Agua caliente - Turbidez baja",
     conditions |-> [turbidity |-> "baja", temperature |-> "calida"],
     outputs |-> [dose |-> "baja", time |-> "muy_corto", phCorrection |-> "none"],
     baseCost |-> Rat(8, 100)],
    [id |-> 20, name |-> "Agua caliente - Turbidez alta",
     conditions |-> [turbidity |-> "alta", temperature |-> "calida"],
     outputs |-> [dose |-> "media", time |-> "medio", phCorrection |-> "none"],
     baseCost |-> Rat(28, 100)]
>>

\* the catalogues and the rule base as the engine reads them
Catalogues ==
    [turbidity |-> TURBIDITY_SETS, ph |-> PH_SETS, temperature |-> TEMPERATURE_SETS,
     dose |-> DOSE_SETS, time |-> TIME_SETS]

(***************************************************************************)
(* Fuzzy inference (part_007)                                              *)
(***************************************************************************)
\* a JavaScript division: a zero divisor gives NaN or an Infinity
JsDiv(x, y) ==
    IF y[1] = 0
    THEN (IF x[1] = 0 THEN NaN ELSE IF x[1] > 0 THEN Infinity ELSE <<-1, 0>>)
    ELSE RDiv(x, y)

\* Map.set and `map.get(key) || 0`
MapSet(map, key, val) ==
    [k \in (DOMAIN map) \cup {key} |-> IF k = key THEN val ELSE map[k]]
MapGet(map, key) == IF key \in DOMAIN map THEN map[key] ELSE Zero
EmptyMap == [k \in {} |-> Zero]

RECURSIVE getMembershipsFrom(_, _, _, _)
getMembershipsFrom(value, sets, i, degrees) ==
    IF i > Len(sets) THEN degrees
    ELSE getMembershipsFrom(value, sets, i + 1,
            MapSet(degrees, sets[i].name, calculateMembership(value, sets[i])))

getMemberships(value, sets) == getMembershipsFrom(value, sets, 1, EmptyMap)

RECURSIVE MinOf(_)
MinOf(s) == IF Len(s) = 1 THEN s[1] ELSE RMin(s[1], MinOf(Tail(s)))

\* a mutation of RuleConditions: the temperature condition is never pushed
RuleConditionsWithoutTemperature(rule, mu) ==
    LET has(v) == v \in DOMAIN rule.conditions
    IN  (IF has("turbidity") THEN <<MapGet(mu.turbidity, rule.conditions.turbidity)>> ELSE <<>>)
        \o (IF has("ph") THEN <<MapGet(mu.ph, rule.conditions.ph)>> ELSE <<>>)

\* the degrees a rule's conditions push, in the order turbidity, ph, temperature
RuleConditions(rule, mu) ==
    LET has(v) == v \in DOMAIN rule.conditions
    IN  (IF has("turbidity") THEN <<MapGet(mu.turbidity, rule.conditions.turbidity)>> ELSE <<>>)
        \o (IF has("ph") THEN <<MapGet(mu.ph, rule.conditions.ph)>> ELSE <<>>)
        \o (IF has("temperature") THEN <<MapGet(mu.temperature, rule.conditions.temperature)>> ELSE <<>>)

\* a mutation of RuleActivationOf: Math.max where the code has Math.min
RuleActivationOfMax(rule, mu) ==
    LET conditions == RuleConditions(rule, mu)
    IN  IF Len(conditions) > 0 THEN RNeg(MinOf([i \in DOMAIN conditions |-> RNeg(conditions[i])]))
        ELSE Zero

RuleActivationOf(rule, mu) ==
    LET conditions == RuleConditions(rule, mu)
    IN  IF Len(conditions) > 0 THEN MinOf(conditions) ELSE Zero

\* the accumulators of the rule loop before the first rule
RuleLoopStart ==
    [doseActivations |-> EmptyMap, timeActivations |-> EmptyMap,
     ruleActivations |-> <<>>, totalCost |-> Zero, totalWeight |-> Zero,
     phCorrectionLevel |-> "none", maxPhCorrectionWeight |-> Zero]

\* a mutation of EvaluateRule: `>=` where the code compares the activation
\* with maxPhCorrectionWeight by `>`
EvaluateRuleLastWins(acc, rule, mu) ==
    LET activation == RuleActivationOf(rule, mu)
    IN  IF RLt(Zero, activation)
        THEN [doseActivations |->
                 MapSet(acc.doseActivations, rule.outputs.dose,
                        RMax(MapGet(acc.doseActivations, rule.outputs.dose), activation)),
              timeActivations |->
                 MapSet(acc.timeActivations, rule.outputs.time,
                        RMax(MapGet(acc.timeActivations, rule.outputs.time), activation)),
              totalCost |-> RAdd(acc.totalCost, RMul(rule.baseCost, activation)),
              totalWeight |-> RAdd(acc.totalWeight, activation),
              phCorrectionLevel |->
                 IF RLe(acc.maxPhCorrectionWeight, activation)
                 THEN rule.outputs.phCorrection ELSE acc.phCorrectionLevel,
              maxPhCorrectionWeight |->
                 IF RLe(acc.maxPhCorrectionWeight, activation)
                 THEN activation ELSE acc.maxPhCorrectionWeight,
              ruleActivations |->
                 Append(acc.ruleActivations,
                        [id |-> rule.id, name |-> rule.name, firingStrength |-> activation,
                         conditions |-> rule.conditions, outputs |-> rule.outputs])]
        ELSE acc

\* one pass of the rule loop's body
EvaluateRule(acc, rule, mu) ==
    LET activation == RuleActivationOf(rule, mu)
    IN  IF RLt(Zero, activation)
        THEN [doseActivations |->
                 MapSet(acc.doseActivations, rule.outputs.dose,
                        RMax(MapGet(acc.doseActivations, rule.outputs.dose), activation)),
              timeActivations |->
                 MapSet(acc.timeActivations, rule.outputs.time,
                        RMax(MapGet(acc.timeActivations, rule.outputs.time), activation)),
              totalCost |-> RAdd(acc.totalCost, RMul(rule.baseCost, activation)),
              totalWeight |-> RAdd(acc.totalWeight, activation),
              phCorrectionLevel |->
                 IF RLt(acc.maxPhCorrectionWeight, activation)
                 THEN rule.outputs.phCorrection ELSE acc.phCorrectionLevel,
              maxPhCorrectionWeight |->
                 IF RLt(acc.maxPhCorrectionWeight, activation)
                 THEN activation ELSE acc.maxPhCorrectionWeight,
              ruleActivations |->
                 Append(acc.ruleActivations,
                        [id |-> rule.id, name |-> rule.name, firingStrength |-> activation,
                         conditions |-> rule.conditions, outputs |-> rule.outputs])]
        ELSE acc

RECURSIVE EvaluateRules(_, _, _, _)
EvaluateRules(rules, i, acc, mu) ==
    IF i > Len(rules) THEN acc
    ELSE EvaluateRules(rules, i + 1, EvaluateRule(acc, rules[i], mu), mu)

RECURSIVE defuzzifyFrom(_, _, _, _, _)
defuzzifyFrom(activations, sets, i, numerator, denominator) ==
    IF i > Len(sets)
    THEN (IF RLt(Zero, denominator) THEN RDiv(numerator, denominator) ELSE Zero)
    ELSE LET activation == MapGet(activations, sets[i].name)
             center == RDiv(RAdd(sets[i].points[2], sets[i].points[3]), Num(2))
         IN  IF RLt(Zero, activation)
             THEN defuzzifyFrom(activations, sets, i + 1,
                                RAdd(numerator, RMul(center, activation)),
                                RAdd(denominator, activation))
             ELSE defuzzifyFrom(activations, sets, i + 1, numerator, denominator)

defuzzify(activations, sets) == defuzzifyFrom(activations, sets, 1, Zero, Zero)

\* a mutation of InsertByStrength: an entry goes in front of the entries of
\* its own strength (a sort that is not stable)
RECURSIVE InsertByStrengthBeforeEqual(_, _)
InsertByStrengthBeforeEqual(sorted, x) ==
    IF sorted = <<>> THEN <<x>>
    ELSE IF RLe(sorted[1].firingStrength, x.firingStrength) THEN <<x>> \o sorted
    ELSE <<sorted[1]>> \o InsertByStrengthBeforeEqual(Tail(sorted), x)

\* Array.prototype.sort with (a, b) => b.firingStrength - a.firingStrength:
\* a stable sort, so an entry goes behind every entry that is not weaker
RECURSIVE InsertByStrength(_, _)
InsertByStrength(sorted, x) ==
    IF sorted = <<>> THEN <<x>>
    ELSE IF RLt(sorted[1].firingStrength, x.firingStrength) THEN <<x>> \o sorted
    ELSE <<sorted[1]>> \o InsertByStrength(Tail(sorted), x)

RECURSIVE SortFrom(_, _, _)
SortFrom(list, i, sorted) ==
    IF i > Len(list) THEN sorted
    ELSE SortFrom(list, i + 1, InsertByStrength(sorted, list[i]))

SortByStrength(list) == SortFrom(list, 1, <<>>)

\* Number.prototype.toFixed(digits), digits in {0, 1}, as the rational it prints
ToFixed(x, digits) ==
    LET p == IF digits = 0 THEN 1 ELSE 10
    IN  IF x[1] >= 0 THEN Rat(MathRound(RMul(x, Num(p))), p)
        ELSE RNeg(Rat(MathRound(RMul(RNeg(x), Num(p))), p))

\* the explanation as the values its template prints
generateExplanation(inputs, dose, time, risk, activations) ==
    [turbidityPart |->
        IF RLt(inputs.turbidity, Num(20)) THEN "El agua presenta baja turbidez"
        ELSE IF RLt(inputs.turbidity, Num(150)) THEN "La turbidez del agua esta en niveles moderados"
        ELSE IF RLt(inputs.turbidity, Num(400)) THEN "Se detecta alta turbidez en el agua"
        ELSE "ALERTA: Turbidez extremadamente alta detectada",
     phPart |->
        IF RLt(inputs.ph, Num(6)) THEN "y el pH es acido, requiriendo neutralizacion"
        ELSE IF RLt(Rat(85, 10), inputs.ph) THEN "y el pH es alcalino, afectando la eficiencia del coagulante"
        ELSE "con pH en rango optimo para coagulacion",
     dose |-> ToFixed(dose, 1),
     time |-> time,
     topRule |-> IF Len(activations) > 0 THEN activations[1].name ELSE None,
     topPercent |->
        IF Len(activations) > 0
        THEN ToFixed(RMul(activations[1].firingStrength, Num(100)), 0) ELSE NoNumber]

\* a mutation of ProcessFactor: the midpoint is chosen by the turbidity, not
\* by the dose
ProcessFactorGuardingTurbidity(coagulantDose, turbidity) ==
    IF RLt(Zero, turbidity)
    THEN RMin(Num(100), RMul(JsDiv(coagulantDose, turbidity), Num(500)))
    ELSE Num(50)

\* the process factor of the quality score
ProcessFactor(coagulantDose, turbidity) ==
    IF RLt(Zero, coagulantDose)
    THEN RMin(Num(100), RMul(JsDiv(coagulantDose, turbidity), Num(500)))
    ELSE Num(50)

runFuzzyInference(inputs, rules, cat) ==
    LET turbidity == inputs.turbidity
        ph == inputs.ph
        temperature == inputs.temperature
        mu == [turbidity |-> getMemberships(turbidity, cat.turbidity),
               ph |-> getMemberships(ph, cat.ph),
               temperature |-> getMemberships(temperature, cat.temperature)]
        acc == EvaluateRules(rules, 1, RuleLoopStart, mu)
        coagulantDose == defuzzify(acc.doseActivations, cat.dose)
        flocculationTime == defuzzify(acc.timeActivations, cat.time)
        operationalCost ==
            IF RLt(Zero, acc.totalWeight) THEN RDiv(acc.totalCost, acc.totalWeight)
            ELSE Rat(10, 100)
        phDeviation == RAbs(RSub(ph, Num(7)))
        phCorrectionAmount ==
            IF acc.phCorrectionLevel = "slight" THEN RMul(phDeviation, Num(5))
            ELSE IF acc.phCorrectionLevel = "moderate" THEN RMul(phDeviation, Num(12))
            ELSE IF acc.phCorrectionLevel = "intense" THEN RMul(phDeviation, Num(25))
            ELSE Zero
        turbidityFactor == RMax(Zero, RSub(Num(100), RDiv(turbidity, Num(10))))
        phFactor == RMax(Zero, RSub(Num(100), RMul(RAbs(RSub(ph, Num(7))), Num(15))))
        processFactor == ProcessFactor(coagulantDose, turbidity)
        qualityScore ==
            MathRound(RAdd(RAdd(RMul(turbidityFactor, Rat(5, 10)), RMul(phFactor, Rat(3, 10))),
                           RMul(processFactor, Rat(2, 10))))
        riskLevel ==
            IF RLt(Num(400), turbidity) \/ RLt(ph, Rat(55, 10)) \/ RLt(Rat(95, 10), ph)
            THEN "critical"
            ELSE IF RLt(Num(150), turbidity) \/ RLt(ph, Rat(62, 10)) \/ RLt(Rat(85, 10), ph)
            THEN "caution"
            ELSE "optimal"
        efficiency ==
            RMin(Num(100), RMax(Num(20),
                RSub(RAdd(RSub(Num(100), RDiv(turbidity, Num(20))),
                          IF RLe(Rat(65, 10), ph) /\ RLe(ph, Num(8)) THEN Num(20) ELSE Zero),
                     IF RLt(temperature, Num(15)) THEN Num(10) ELSE Zero)))
        explanation ==
            generateExplanation(inputs, coagulantDose, flocculationTime, riskLevel,
                                acc.ruleActivations)
    IN  [coagulantDose |-> Rat(MathRound(RMul(coagulantDose, Num(10))), 10),
         flocculationTime |-> Num(MathRound(flocculationTime)),
         phCorrection |-> acc.phCorrectionLevel,
         phCorrectionAmount |-> Rat(MathRound(RMul(phCorrectionAmount, Num(10))), 10),
         operationalCost |-> Rat(MathRound(RMul(operationalCost, Num(1000))), 1000),
         qualityScore |-> IF qualityScore > 100 THEN 100
                          ELSE IF qualityScore < 0 THEN 0 ELSE qualityScore,
         riskLevel |-> riskLevel,
         efficiency |-> MathRound(efficiency),
         explanation |-> explanation,
         ruleActivations |-> SortByStrength(acc.ruleActivations)]

\* a runFuzzyInference call, recorded with what it returned
InferenceCall(inputs) ==
    [inputs |-> inputs, outputs |-> runFuzzyInference(inputs, ruleBase, catalogues)]

RECURSIVE Reverse(_)
Reverse(s) == IF s = <<>> THEN <<>> ELSE Append(Reverse(Tail(s)), s[1])

\* a mutation of RunFuzzyInference: the call reverses the shared rule array
\* in place
RunFuzzyInferenceReversingRules(inputs, kept) ==
    /\ fisLog' = Append(kept, InferenceCall(inputs))
    /\ ruleBase' = Reverse(ruleBase)
    /\ UNCHANGED catalogues

\* the call as a step of the program: it reads the rule base and the
\* catalogues and writes neither; the observer keeps the calls `kept` and
\* this one
RunFuzzyInference(inputs, kept) ==
    /\ fisLog' = Append(kept, InferenceCall(inputs))
    /\ UNCHANGED <<ruleBase, catalogues>>

(***************************************************************************)
(* Cluster analytics (part_008)                                            *)
(***************************************************************************)
CLUSTER_NAMES == <<"Normal", "Alerta", "Precaucion", "Degradacion", "Falla Inminente">>

\* membershipRow[index] || 0 for a 0-based index
At(membershipRow, index) ==
    IF index + 1 \in DOMAIN membershipRow THEN membershipRow[index + 1] ELSE Zero

RECURSIVE MaxOf(_)
MaxOf(s) == IF Len(s) = 1 THEN s[1] ELSE RMax(s[1], MaxOf(Tail(s)))

\* Array.prototype.indexOf, 0-based, -1 when absent; NaN is never found
IndexOf(s, v) ==
    IF v # NaN /\ \E i \in DOMAIN s : s[i] = v
    THEN (CHOOSE i \in DOMAIN s : s[i] = v /\ \A j \in 1..(i - 1) : s[j] # v) - 1
    ELSE -1

\* analyzeRisk given the index it takes for the alert cluster
analyzeRiskWith(membershipRow, clusterNames, alertIndex) ==
    LET failureIndex == Len(membershipRow) - 1
        riskScore == MathRound(RAdd(RMul(At(membershipRow, alertIndex), Num(40)),
                                    RMul(At(membershipRow, failureIndex), Num(100))))
        riskCategory == IF riskScore < 20 THEN "low"
                        ELSE IF riskScore < 45 THEN "medium"
                        ELSE IF riskScore < 70 THEN "high"
                        ELSE "critical"
    IN  [riskScore |-> IF riskScore > 100 THEN 100 ELSE riskScore,
         riskCategory |-> riskCategory,
         dominantCluster |-> IndexOf(membershipRow, MaxOf(membershipRow)),
         description |->
            [i \in DOMAIN membershipRow |->
                <<IF i \in DOMAIN clusterNames THEN clusterNames[i] ELSE "C",
                  ToFixed(RMul(membershipRow[i], Num(100)), 1)>>],
         recommendation |-> riskCategory]

\* a mutation of analyzeRisk: the alert cluster is always cluster 0
analyzeRiskAlertFirst(membershipRow, clusterNames) ==
    analyzeRiskWith(membershipRow, clusterNames, 0)

analyzeRisk(membershipRow, clusterNames) ==
    analyzeRiskWith(membershipRow, clusterNames,
                    IF Len(membershipRow) > 2 THEN Len(membershipRow) - 2 ELSE 0)

(***************************************************************************)
(* Fuzzy C-Means solver (part_008)                                         *)
(*                                                                         *)
(* A point is its feature vector.  The solver is run at the default        *)
(* fuzziness 2, where Math.pow(d_j / d_l, 2 / (m - 1)) is the ratio of the *)
(* squared distances and Math.pow(distance, 2) the squared distance, so    *)
(* the model carries every distance by its square and needs no square      *)
(* root; a distance is 0 exactly when its square is.                       *)
(***************************************************************************)
\* the precision of the solver's arithmetic: results are kept to 1/Scale
Scale == 1024

\* a number rounded to the nearest multiple of 1/Scale; NaN stays NaN
Fl(x) == IF x = NaN THEN NaN ELSE Rat(MathRound(RMul(x, Num(Scale))), Scale)

\* DEFAULT_FCM_CONFIG.fuzziness
Fuzziness == 2

\* an array built once: its elements are computed when it is made, not
\* at every read
Array(f) == f \o <<>>

RECURSIVE RSum(_)
RSum(s) == IF s = <<>> THEN Zero ELSE RAdd(s[1], RSum(Tail(s)))

\* Math.pow(x, n) for a whole exponent n >= 0
RECURSIVE Pow(_, _)
Pow(x, n) == IF n = 0 THEN One ELSE Fl(RMul(x, Pow(x, n - 1)))

\* a mutation of euclideanDistanceThrows: only a point longer than the
\* centroid (whose missing coordinates would read undefined) is refused
euclideanDistanceThrowsIfLonger(p1, p2) == Len(p1) > Len(p2)

\* the guard of euclideanDistance: it throws on vectors of different lengths
euclideanDistanceThrows(p1, p2) == Len(p1) # Len(p2)

\* the square of euclideanDistance(p1, p2): the reduce runs over p1
euclideanDistanceSq(p1, p2) ==
    RSum(Array([i \in DOMAIN p1 |-> LET diff == RSub(p1[i], p2[i])
                                    IN  Fl(RMul(diff, diff))]))

\* Math.pow(d_j / d_l, 2 / (m - 1)) from the squares of d_j and d_l
PowRatio(sqj, sql, m) == Pow(Fl(RDiv(sqj, sql)), 1 \div (m - 1))

\* the inner loop over l: Infinity as soon as a zero distance is met
RECURSIVE SumRatiosFrom(_, _, _, _, _, _)
SumRatiosFrom(distances, j, l, k, sumRatios, m) ==
    IF l > k THEN sumRatios
    ELSE IF distances[l] = Zero THEN Infinity
    ELSE SumRatiosFrom(distances, j, l + 1, k,
                       RAdd(sumRatios, PowRatio(distances[j], distances[l], m)), m)

\* the loop over j on row i: a zero distance makes the row the unit row of
\* that cluster and ends the loop
RECURSIVE MembershipRowFrom(_, _, _, _, _)
MembershipRowFrom(row, distances, j, k, m) ==
    IF j > k THEN row
    ELSE IF distances[j] = Zero
         THEN Array([l \in 1..k |-> IF l = j THEN One ELSE Zero])
    ELSE LET sumRatios == SumRatiosFrom(distances, j, 1, k, Zero, m)
         IN  MembershipRowFrom(
                [row EXCEPT ![j] = IF sumRatios = Infinity THEN Zero
                                   ELSE Fl(RDiv(One, sumRatios))],
                distances, j + 1, k, m)

\* a mutation of NormalizeRow: the row is divided by its largest entry
NormalizeRowByMax(row) ==
    LET max == MaxOf(row)
    IN  IF RLt(Zero, max) THEN Array([j \in DOMAIN row |-> Fl(RDiv(row[j], max))])
        ELSE row

\* the normalisation of a row: divided by its sum when the sum is positive
NormalizeRow(row) ==
    LET sum == RSum(row)
    IN  IF RLt(Zero, sum) THEN Array([j \in DOMAIN row |-> Fl(RDiv(row[j], sum))])
        ELSE row

\* step 2 of a pass: every row recomputed from the centroids
UpdateMemberships(points, cents, rows, k, m) ==
    Array([i \in DOMAIN points |->
        LET distances ==
                Array([j \in DOMAIN cents |-> euclideanDistanceSq(points[i], cents[j])])
        IN  NormalizeRow(MembershipRowFrom(rows[i], distances, 1, k, m))])

\* step 3 of a pass: every centroid the weighted mean of the points, the
\* raw sums when the weights sum to 0
UpdateCentroids(points, rows, k, m) ==
    LET dimensionCount == Len(points[1])
    IN  Array([j \in 1..k |->
            LET weight == Array([i \in DOMAIN points |-> Pow(rows[i][j], m)])
                weightSum == RSum(weight)
                newCentroid ==
                    Array([d \in 1..dimensionCount |->
                        RSum(Array([i \in DOMAIN points |->
                                      Fl(RMul(weight[i], points[i][d]))]))])
            IN  Array([d \in 1..dimensionCount |->
                    IF RLt(Zero, weightSum) THEN Fl(RDiv(newCentroid[d], weightSum))
                    ELSE newCentroid[d]])])

\* step 4 of a pass: the largest change of a membership
RECURSIVE MaxChangeFrom(_, _, _, _)
MaxChangeFrom(rows, prev, cell, maxChange) ==
    IF cell > Len(rows) * Len(rows[1]) THEN maxChange
    ELSE LET i == ((cell - 1) \div Len(rows[1])) + 1
             j == ((cell - 1) % Len(rows[1])) + 1
         IN  MaxChangeFrom(rows, prev, cell + 1,
                           RMax(maxChange, RAbs(RSub(rows[i][j], prev[i][j]))))

MaxChange(rows, prev) == MaxChangeFrom(rows, prev, 1, Zero)

\* a mutation of ConvergenceTest: a change equal to the tolerance converges
ConvergenceTestInclusive(maxChange, tolerance) == RLe(maxChange, tolerance)

ConvergenceTest(maxChange, tolerance) == RLt(maxChange, tolerance)

calculateObjectiveFunction(points, cents, rows, m) ==
    RSum(Array([i \in DOMAIN points |->
            RSum(Array([j \in DOMAIN cents |->
                    Fl(RMul(Pow(rows[i][j], m),
                            euclideanDistanceSq(points[i], cents[j])))]))]))

\* a mutation of ValidationError: the cluster count is not compared with
\* the number of points
ValidationErrorEmptyOnly(points, k) ==
    IF Len(points) = 0 THEN "No hay datos para procesar" ELSE None

\* the error runFCM throws on its arguments, None when it accepts them
ValidationError(points, k) ==
    IF Len(points) = 0 THEN "No hay datos para procesar"
    ELSE IF k > Len(points) THEN "No se pueden crear clusteres"
    ELSE None

\* a mutation of LoopContinues: the pass count is compared with <=
LoopContinuesInclusive(iter, maxIterations, conv) == iter <= maxIterations /\ ~conv

\* the condition of the main loop
LoopContinues(iter, maxIterations, conv) == iter < maxIterations /\ ~conv

\* the seeds initializeCentroids can draw: the first k of a shuffle of the
\* points, as data indices
SeedChoices(n, k) ==
    LET len == IF k < n THEN k ELSE n
    IN  { s \in [1..len -> 1..n] : \A a, b \in 1..len : a # b => s[a] # s[b] }

\* a throw out of runFCM: the call ends with the error and returns nothing
Throw(message) ==
    /\ pc' = "Failed"
    /\ fcmError' = message
    /\ UNCHANGED <<fcmResult, seeds, centroids, memberships, prevMemberships,
                   iteration, converged, iterationHistory, passLog>>

\* the argument checks of runFCM
Validate ==
    /\ pc = "Called"
    /\ LET error == ValidationError(data, config.clusterCount)
       IN  IF error # None THEN Throw(error)
           ELSE /\ pc' = "Initializing"
                /\ UNCHANGED <<fcmResult, fcmError, seeds, centroids, memberships,
                               prevMemberships, iteration, converged,
                               iterationHistory, passLog>>
    /\ UNCHANGED <<data, config>>

\* Initializing: the seeds are drawn and every row is set to 1/k
InitializeCentroids ==
    /\ pc = "Initializing"
    /\ \E s \in SeedChoices(Len(data), config.clusterCount) :
         /\ seeds' = s
         /\ centroids' = [j \in DOMAIN s |-> data[s[j]]]
    /\ memberships' = [i \in DOMAIN data |->
                          [j \in 1..config.clusterCount |->
                              Fl(RDiv(One, Num(config.clusterCount)))]]
    /\ prevMemberships' = memberships'
    /\ iterationHistory' = <<>>
    /\ converged' = FALSE
    /\ iteration' = 0
    /\ pc' = "Iterating"
    /\ UNCHANGED <<data, config, passLog, fcmResult, fcmError>>

\* a mutation of PushSnapshot: the membership rows are pushed without being
\* copied, so every snapshot shows the matrix of the latest pass
PushSnapshotSharingRows(history, snapshot) ==
    Append([p \in DOMAIN history |->
               [history[p] EXCEPT !.membershipMatrix = snapshot.membershipMatrix]],
           snapshot)

\* iterationHistory.push of a snapshot whose arrays are copies
PushSnapshot(history, snapshot) == Append(history, snapshot)

\* one pass of the main loop
Iterate ==
    /\ pc = "Iterating"
    /\ LoopContinues(iteration, config.maxIterations, converged)
    /\ LET k == config.clusterCount
           m == config.fuzziness
       IN
       IF \E i \in DOMAIN data, j \in DOMAIN centroids :
              euclideanDistanceThrows(data[i], centroids[j])
       THEN Throw("Dimensiones no coinciden")
       ELSE
       \E newMemberships \in {UpdateMemberships(data, centroids, memberships, k, m)} :
       \E newCentroids \in {UpdateCentroids(data, newMemberships, k, m)} :
       \E maxChange \in {MaxChange(newMemberships, prevMemberships)} :
           IF /\ config.trackHistory
              /\ \E i \in DOMAIN data, j \in DOMAIN newCentroids :
                    euclideanDistanceThrows(data[i], newCentroids[j])
           THEN Throw("Dimensiones no coinciden")
           ELSE /\ memberships' = newMemberships
                /\ centroids' = newCentroids
                /\ converged' = ConvergenceTest(maxChange, config.tolerance)
                /\ iterationHistory' =
                     IF config.trackHistory
                     THEN PushSnapshot(iterationHistory,
                                 [iteration |-> iteration,
                                  centroids |-> newCentroids,
                                  membershipMatrix |-> newMemberships,
                                  convergenceError |-> maxChange,
                                  objectiveFunction |->
                                     calculateObjectiveFunction(data, newCentroids,
                                                                newMemberships, m)])
                     ELSE iterationHistory
                /\ prevMemberships' = newMemberships
                /\ iteration' = iteration + 1
                /\ passLog' = Append(passLog, maxChange)
                /\ UNCHANGED <<pc, seeds, fcmResult, fcmError>>
    /\ UNCHANGED <<data, config>>

\* the loop is left and the result is built and returned
Return ==
    /\ pc = "Iterating"
    /\ ~LoopContinues(iteration, config.maxIterations, converged)
    /\ pc' = IF converged THEN "Converged" ELSE "MaxIterationsReached"
    /\ fcmResult' =
         <<[centroids |-> centroids,
            membershipMatrix |-> memberships,
            iterationHistory |-> iterationHistory,
            convergenceError |->
                IF config.trackHistory /\ Len(iterationHistory) > 0
                THEN iterationHistory[Len(iterationHistory)].convergenceError
                ELSE Zero,
            iterationCount |-> iteration,
            clusterAssignments |->
                [i \in DOMAIN memberships |->
                    IndexOf(memberships[i], MaxOf(memberships[i]))],
            converged |-> converged]>>
    /\ UNCHANGED <<data, config, seeds, centroids, memberships, prevMemberships,
                   iteration, converged, iterationHistory, passLog, fcmError>>

(***************************************************************************)
(* runFCM as a function of its arguments and of the outcome of the shuffle *)
(* (part_008): what a caller gets from one call                            *)
(***************************************************************************)
\* the result runFCM builds after the loop
FCMResultOf(cfg, cents, rows, iter, conv, hist) ==
    [centroids |-> cents,
     membershipMatrix |-> rows,
     iterationHistory |-> hist,
     convergenceError |->
         IF cfg.trackHistory /\ Len(hist) > 0 THEN hist[Len(hist)].convergenceError
         ELSE Zero,
     iterationCount |-> iter,
     clusterAssignments |-> [i \in DOMAIN rows |-> IndexOf(rows[i], MaxOf(rows[i]))],
     converged |-> conv]

\* what a call that throws gives its caller
Thrown(message) == [error |-> message]

IsThrown(outcome) == "error" \in DOMAIN outcome

\* the main loop from the state the passes so far have left
RECURSIVE runFCMFrom(_, _, _, _, _, _, _, _)
runFCMFrom(points, cfg, cents, rows, prev, iter, conv, hist) ==
    IF ~LoopContinues(iter, cfg.maxIterations, conv)
    THEN FCMResultOf(cfg, cents, rows, iter, conv, hist)
    ELSE IF \E i \in DOMAIN points, j \in DOMAIN cents :
                euclideanDistanceThrows(points[i], cents[j])
    THEN Thrown("Dimensiones no coinciden")
    ELSE LET k == cfg.clusterCount
             m == cfg.fuzziness
             newMemberships ==
                 CHOOSE x \in {UpdateMemberships(points, cents, rows, k, m)} : TRUE
             newCentroids ==
                 CHOOSE x \in {UpdateCentroids(points, newMemberships, k, m)} : TRUE
             maxChange == CHOOSE x \in {MaxChange(newMemberships, prev)} : TRUE
         IN  IF /\ cfg.trackHistory
                /\ \E i \in DOMAIN points, j \in DOMAIN newCentroids :
                      euclideanDistanceThrows(points[i], newCentroids[j])
             THEN Thrown("Dimensiones no coinciden")
             ELSE runFCMFrom(points, cfg, newCentroids, newMemberships, newMemberships,
                             iter + 1, ConvergenceTest(maxChange, cfg.tolerance),
                             IF cfg.trackHistory
                             THEN PushSnapshot(hist,
                                     [iteration |-> iter,
                                      centroids |-> newCentroids,
                                      membershipMatrix |-> newMemberships,
                                      convergenceError |-> maxChange,
                                      objectiveFunction |->
                                          calculateObjectiveFunction(points, newCentroids,
                                                                     newMemberships, m)])
                             ELSE hist)

\* runFCM(data, config) when the shuffle of initializeCentroids puts the
\* points of indices s first
runFCMSeeded(points, cfg, s) ==
    IF ValidationError(points, cfg.clusterCount) # None
    THEN Thrown(ValidationError(points, cfg.clusterCount))
    ELSE LET rows == [i \in DOMAIN points |->
                         [j \in 1..cfg.clusterCount |->
                             Fl(RDiv(One, Num(cfg.clusterCount)))]]
         IN  runFCMFrom(points, cfg, [j \in DOMAIN s |-> points[s[j]]],
                        rows, rows, 0, FALSE, <<>>)

\* the outcomes a runFCM call can have, over the shuffles
runFCM(points, cfg) ==
    IF ValidationError(points, cfg.clusterCount) # None
    THEN {Thrown(ValidationError(points, cfg.clusterCount))}
    ELSE { runFCMSeeded(points, cfg, s) : s \in SeedChoices(Len(points), cfg.clusterCount) }

(***************************************************************************)
(* Water store (src/stores/water-store.ts)                                 *)
(***************************************************************************)
MaxHistoryLength == 2   \* the store's maxHistoryLength, 200 in the source

\* DEFAULT_STATE of the water store
WaterIdle ==
    /\ waterTurbidity = Num(50)
    /\ waterPh = Num(7)
    /\ waterTemperature = Num(22)
    /\ fuzzyOutputs = Null
    /\ waterMemberships = Null
    /\ isSimulating = FALSE
    /\ currentScenario = Null
    /\ simulationStartTime = None
    /\ simulationElapsedTime = Zero
    /\ simulationSpeed = One
    /\ waterHistory = <<>>
    /\ maxHistoryLength = MaxHistoryLength

\* Math.max(lo, Math.min(hi, value))
Clamp(lo, hi, value) == RMax(lo, RMin(hi, value))

\* getMembershipDegrees: per variable, the sets of the catalogue in order,
\* each with the degree of the value
getMembershipDegrees(inputs, cat) ==
    LET entries(value, sets) ==
            LET degrees == getMemberships(value, sets)
            IN  [i \in DOMAIN sets |-> [name |-> sets[i].name,
                                        degree |-> MapGet(degrees, sets[i].name)]]
    IN  [turbidity |-> entries(inputs.turbidity, cat.turbidity),
         ph |-> entries(inputs.ph, cat.ph),
         temperature |-> entries(inputs.temperature, cat.temperature)]

\* easeInOutCubic
easeInOutCubic(t) ==
    IF RLt(t, Rat(1, 2))
    THEN RMul(Num(4), RMul(t, RMul(t, t)))
    ELSE LET u == RAdd(RMul(Num(-2), t), Num(2))
         IN  RSub(One, RDiv(RMul(u, RMul(u, u)), Num(2)))

\* the loop of interpolateKeyframes: the first i (from i on) whose span
\* holds currentTime, or 0 when there is none
RECURSIVE FindSpan(_, _, _)
FindSpan(keyframes, currentTime, i) ==
    IF i > Len(keyframes) - 1 THEN 0
    ELSE IF RLe(keyframes[i].time, currentTime) /\ RLe(currentTime, keyframes[i + 1].time)
         THEN i
         ELSE FindSpan(keyframes, currentTime, i + 1)

interpolateKeyframes(keyframes, currentTime) ==
    LET span == FindSpan(keyframes, currentTime, 1)
        prevKeyframe == IF span = 0 THEN keyframes[1] ELSE keyframes[span]
        nextKeyframe == IF span = 0 THEN keyframes[Len(keyframes)] ELSE keyframes[span + 1]
        duration == RSub(nextKeyframe.time, prevKeyframe.time)
        progress == IF RLt(Zero, duration)
                    THEN RDiv(RSub(currentTime, prevKeyframe.time), duration)
                    ELSE One
        eased == easeInOutCubic(Clamp(Zero, One, progress))
        mix(from, to) == RAdd(from, RMul(RSub(to, from), eased))
    IN  [turbidity |-> mix(prevKeyframe.turbidity, nextKeyframe.turbidity),
         ph |-> mix(prevKeyframe.ph, nextKeyframe.ph),
         temperature |-> mix(prevKeyframe.temperature, nextKeyframe.temperature)]

\* a mutation of PushHistory: a full history drops the new point
PushHistoryDroppingNewest(history, point, maxLength) ==
    IF Len(history) + 1 > maxLength THEN history ELSE Append(history, point)

\* [...history, newPoint], shifted when longer than maxHistoryLength
PushHistory(history, point, maxLength) ==
    LET newHistory == Append(history, point)
    IN  IF Len(newHistory) > maxLength THEN Tail(newHistory) ELSE newHistory

\* the HistoryPoint of an inference
HistoryPoint(inputs, outputs) ==
    [qualityScore |-> outputs.qualityScore,
     turbidity |-> inputs.turbidity,
     ph |-> inputs.ph,
     temperature |-> inputs.temperature,
     operationalCost |-> outputs.operationalCost]

\* runInference with the parameters the store holds when it is called
runInferenceOn(inputs) ==
    \E outputs \in {runFuzzyInference(inputs, ruleBase, catalogues)} :
        /\ fuzzyOutputs' = outputs
        /\ waterMemberships' = getMembershipDegrees(inputs, catalogues)
        /\ waterHistory' = PushHistory(waterHistory, HistoryPoint(inputs, outputs),
                                       maxHistoryLength)

\* set({turbidity, ph, temperature}) followed by get().runInference()
SetAndInfer(inputs) ==
    /\ waterTurbidity' = inputs.turbidity
    /\ waterPh' = inputs.ph
    /\ waterTemperature' = inputs.temperature
    /\ runInferenceOn(inputs)

StoredInputs ==
    [turbidity |-> waterTurbidity, ph |-> waterPh, temperature |-> waterTemperature]

\* the fields of the simulation
simVars == <<isSimulating, currentScenario, simulationStartTime, simulationElapsedTime,
             simulationSpeed>>

setTurbidity(value) ==
    /\ SetAndInfer([StoredInputs EXCEPT !.turbidity = Clamp(Zero, Num(1000), value)])
    /\ UNCHANGED <<simVars, maxHistoryLength>>

setPh(value) ==
    /\ SetAndInfer([StoredInputs EXCEPT !.ph = Clamp(Zero, Num(14), value)])
    /\ UNCHANGED <<simVars, maxHistoryLength>>

setTemperature(value) ==
    /\ SetAndInfer([StoredInputs EXCEPT !.temperature = Clamp(Zero, Num(40), value)])
    /\ UNCHANGED <<simVars, maxHistoryLength>>

\* a mutation of ClampedParameters: the given values are stored as they come
UnclampedParameters(params) ==
    [turbidity |-> IF "turbidity" \in DOMAIN params THEN params.turbidity ELSE waterTurbidity,
     ph |-> IF "ph" \in DOMAIN params THEN params.ph ELSE waterPh,
     temperature |-> IF "temperature" \in DOMAIN params THEN params.temperature
                     ELSE waterTemperature]

\* what setParameters stores for a partial WaterInputs
ClampedParameters(params) ==
    [turbidity |-> IF "turbidity" \in DOMAIN params
                   THEN Clamp(Zero, Num(1000), params.turbidity) ELSE waterTurbidity,
     ph |-> IF "ph" \in DOMAIN params
            THEN Clamp(Zero, Num(14), params.ph) ELSE waterPh,
     temperature |-> IF "temperature" \in DOMAIN params
                     THEN Clamp(Zero, Num(40), params.temperature) ELSE waterTemperature]

\* setParameters without the fields it leaves alone
SetParameters(params) == SetAndInfer(ClampedParameters(params))

setParameters(params) ==
    /\ SetParameters(params)
    /\ UNCHANGED <<simVars, maxHistoryLength>>

\* runInference called on its own
runInference ==
    /\ runInferenceOn(StoredInputs)
    /\ UNCHANGED <<waterTurbidity, waterPh, waterTemperature, simVars, maxHistoryLength>>

startSimulation(scenario) ==
    /\ isSimulating' = TRUE
    /\ currentScenario' = scenario
    /\ simulationStartTime' = "now"
    /\ simulationElapsedTime' = Zero
    /\ SetParameters(interpolateKeyframes(scenario.keyframes, Zero))
    /\ UNCHANGED <<simulationSpeed, maxHistoryLength>>

\* the set() of stopSimulation
StopSimulation ==
    /\ isSimulating' = FALSE
    /\ currentScenario' = Null
    /\ simulationStartTime' = None
    /\ simulationElapsedTime' = Zero

stopSimulation ==
    /\ StopSimulation
    /\ UNCHANGED <<waterTurbidity, waterPh, waterTemperature, fuzzyOutputs, waterMemberships,
                   simulationSpeed, waterHistory, maxHistoryLength>>

pauseSimulation ==
    /\ isSimulating' = FALSE
    /\ UNCHANGED <<waterTurbidity, waterPh, waterTemperature, fuzzyOutputs, waterMemberships,
                   currentScenario, simulationStartTime, simulationElapsedTime,
                   simulationSpeed, waterHistory, maxHistoryLength>>

\* a mutation of resumeSimulation: it does not look at currentScenario
resumeSimulationUnguarded ==
    /\ isSimulating' = TRUE
    /\ UNCHANGED <<waterTurbidity, waterPh, waterTemperature, fuzzyOutputs, waterMemberships,
                   currentScenario, simulationStartTime, simulationElapsedTime,
                   simulationSpeed, waterHistory, maxHistoryLength>>

resumeSimulation ==
    /\ isSimulating' = (IF currentScenario # Null THEN TRUE ELSE isSimulating)
    /\ UNCHANGED <<waterTurbidity, waterPh, waterTemperature, fuzzyOutputs, waterMemberships,
                   currentScenario, simulationStartTime, simulationElapsedTime,
                   simulationSpeed, waterHistory, maxHistoryLength>>

\* a mutation of SimulationEnded: the end is tested with > in place of >=
SimulationEndedStrictly(newElapsedTime, duration) == RLt(duration, newElapsedTime)

\* newElapsedTime >= currentScenario.duration
SimulationEnded(newElapsedTime, duration) == RLe(duration, newElapsedTime)

updateSimulation(deltaTime) ==
    IF ~isSimulating \/ currentScenario = Null
    THEN UNCHANGED waterVars
    ELSE \E newElapsedTime \in {RAdd(simulationElapsedTime, RMul(deltaTime, simulationSpeed))} :
           IF SimulationEnded(newElapsedTime, currentScenario.duration)
           THEN /\ SetParameters(currentScenario.keyframes[Len(currentScenario.keyframes)])
                /\ StopSimulation
                /\ UNCHANGED <<simulationSpeed, maxHistoryLength>>
           ELSE /\ simulationElapsedTime' = newElapsedTime
                /\ SetParameters(interpolateKeyframes(currentScenario.keyframes,
                                                      newElapsedTime))
                /\ UNCHANGED <<isSimulating, currentScenario, simulationStartTime,
                               simulationSpeed, maxHistoryLength>>

setSimulationSpeed(speed) ==
    /\ simulationSpeed' = Clamp(Rat(1, 4), Num(4), speed)
    /\ UNCHANGED <<waterTurbidity, waterPh, waterTemperature, fuzzyOutputs, waterMemberships,
                   isSimulating, currentScenario, simulationStartTime,
                   simulationElapsedTime, waterHistory, maxHistoryLength>>

\* a mutation of reset: the history is emptied with the rest
resetClearingHistory ==
    /\ isSimulating' = FALSE
    /\ currentScenario' = Null
    /\ simulationStartTime' = None
    /\ simulationElapsedTime' = Zero
    /\ simulationSpeed' = One
    /\ maxHistoryLength' = MaxHistoryLength
    /\ waterTurbidity' = Num(50)
    /\ waterPh' = Num(7)
    /\ waterTemperature' = Num(22)
    /\ \E inputs \in {[turbidity |-> Num(50), ph |-> Num(7), temperature |-> Num(22)]} :
       \E outputs \in {runFuzzyInference(inputs, ruleBase, catalogues)} :
         /\ fuzzyOutputs' = outputs
         /\ waterMemberships' = getMembershipDegrees(inputs, catalogues)
         /\ waterHistory' = <<HistoryPoint(inputs, outputs)>>

\* reset: DEFAULT_STATE with the history kept, then runInference
reset ==
    /\ isSimulating' = FALSE
    /\ currentScenario' = Null
    /\ simulationStartTime' = None
    /\ simulationElapsedTime' = Zero
    /\ simulationSpeed' = One
    /\ maxHistoryLength' = MaxHistoryLength
    /\ SetAndInfer([turbidity |-> Num(50), ph |-> Num(7), temperature |-> Num(22)])

clearHistory ==
    /\ waterHistory' = <<>>
    /\ UNCHANGED <<waterTurbidity, waterPh, waterTemperature, fuzzyOutputs, waterMemberships,
                   simVars, maxHistoryLength>>

(***************************************************************************)
(* Diagnostics store (part_001)                                            *)
(***************************************************************************)
DEFAULT_FCM_CONFIG ==
    [clusterCount |-> 3, fuzziness |-> Fuzziness, maxIterations |-> 100,
     tolerance |-> Rat(1, 1000), trackHistory |-> TRUE]

\* the h, s, l of CLUSTER_COLORS
CLUSTER_COLORS == << <<142, 76, 45>>, <<45, 93, 47>>, <<25, 95, 53>>,
                     <<0, 84, 60>>, <<330, 80, 50>> >>

DEFAULT_ANIMATION ==
    [isPlaying |-> FALSE, currentFrame |-> 0, totalFrames |-> 0, playbackSpeed |-> Num(2)]

\* DEFAULT_STATE of the diagnostics store, nothing waiting
DiagIdle ==
    /\ dataPoints = <<>>
    /\ isLoadingData = FALSE
    /\ dataSource = None
    /\ storeConfig = DEFAULT_FCM_CONFIG
    /\ storeResult = Null
    /\ isRunning = FALSE
    /\ processedPoints = <<>>
    /\ animation = DEFAULT_ANIMATION
    /\ timers = <<>>
    /\ imports = 0
    /\ lastCallback = None

\* interpolateClusterColor: the h, s, l the returned string prints
interpolateClusterColor(membershipRow, colors) ==
    LET n == IF Len(membershipRow) < Len(colors) THEN Len(membershipRow) ELSE Len(colors)
        channel(c) ==
            MathRound(RSum([i \in 1..n |-> RMul(Num(colors[i][c]), membershipRow[i])]))
    IN  <<channel(1), channel(2), channel(3)>>

\* the feature vectors of a list of DataPoints
FeaturesOf(points) == [i \in DOMAIN points |-> points[i].features]

\* one row of a parsed CSV as a DataPoint: the id column or P<index>, the
\* first two numeric columns as features, a cell that is no number as 0
CsvPoint(row, index) ==
    [id |-> IF row.id # Null THEN row.id ELSE <<"P", index>>,
     features |-> [c \in 1..2 |-> IF row.cells[c] = NaN THEN Zero ELSE row.cells[c]]]

CsvPoints(rows) == [i \in DOMAIN rows |-> CsvPoint(rows[i], i - 1)]

\* importCSV: the parse is started
ImportCSV ==
    /\ isLoadingData' = TRUE
    /\ imports' = imports + 1
    /\ UNCHANGED <<dataPoints, dataSource, storeConfig, storeResult, isRunning,
                   processedPoints, animation, timers>>

\* the parse fails, or the file has no row or fewer than two numeric columns
ImportRejected ==
    /\ imports > 0
    /\ imports' = imports - 1
    /\ isLoadingData' = FALSE
    /\ UNCHANGED <<dataPoints, dataSource, storeConfig, storeResult, isRunning,
                   processedPoints, animation, timers>>

\* Papa.parse completes with the rows of a file of two or more numeric columns
ImportComplete(rows) ==
    /\ imports > 0
    /\ imports' = imports - 1
    /\ dataPoints' = CsvPoints(rows)
    /\ isLoadingData' = FALSE
    /\ dataSource' = "imported"
    /\ storeResult' = Null
    /\ processedPoints' = <<>>
    /\ UNCHANGED <<storeConfig, isRunning, animation, timers>>

\* generateSynthetic, generateSyntheticData having returned `points`
generateSynthetic(points) ==
    /\ dataPoints' = points
    /\ dataSource' = "synthetic"
    /\ storeResult' = Null
    /\ processedPoints' = <<>>
    /\ UNCHANGED <<isLoadingData, storeConfig, isRunning, animation, timers, imports>>

clearData ==
    /\ dataPoints' = <<>>
    /\ dataSource' = None
    /\ storeResult' = Null
    /\ processedPoints' = <<>>
    /\ animation' = DEFAULT_ANIMATION
    /\ UNCHANGED <<isLoadingData, storeConfig, isRunning, timers, imports>>

\* { ...config, ...newConfig }
MergeConfig(cfg, newConfig) ==
    [f \in DOMAIN cfg |-> IF f \in DOMAIN newConfig THEN newConfig[f] ELSE cfg[f]]

\* updateConfig with a partial configuration
updateConfig(newConfig) ==
    /\ storeConfig' = MergeConfig(storeConfig, newConfig)
    /\ UNCHANGED <<dataPoints, isLoadingData, dataSource, storeResult, isRunning,
                   processedPoints, animation, timers, imports>>

\* runClustering up to its return: the callback is queued with the
\* dataPoints and config read by get()
runClustering ==
    IF Len(dataPoints) = 0
    THEN UNCHANGED diagVars
    ELSE /\ isRunning' = TRUE
         /\ timers' = Append(timers, [dataPoints |-> dataPoints, config |-> storeConfig])
         /\ UNCHANGED <<dataPoints, isLoadingData, dataSource, storeConfig, storeResult,
                        processedPoints, animation, imports>>

\* the runFCM call of the callback, on the dataPoints and config that
\* runClustering read: the outcomes it can have
ClusteringRun(captured) ==
    runFCM(FeaturesOf(captured.dataPoints), [captured.config EXCEPT !.trackHistory = TRUE])

\* a mutation of ClusteringDone's catch branch: the result is cleared as well
ClusteringFailedClearing ==
    /\ lastCallback' = "threw"
    /\ isRunning' = FALSE
    /\ storeResult' = Null
    /\ processedPoints' = <<>>
    /\ animation' = DEFAULT_ANIMATION

\* the catch branch of the callback
ClusteringFailed ==
    /\ lastCallback' = "threw"
    /\ isRunning' = FALSE
    /\ UNCHANGED <<storeResult, processedPoints, animation>>

\* the setTimeout callback of the oldest waiting runClustering call
ClusteringDone ==
    /\ timers # <<>>
    /\ timers' = Tail(timers)
    /\ \E outcome \in ClusteringRun(timers[1]) :
         IF IsThrown(outcome)
         THEN ClusteringFailed
         ELSE /\ lastCallback' = "stored"
              /\ storeResult' = outcome
              /\ processedPoints' =
                   [i \in DOMAIN timers[1].dataPoints |->
                       [id |-> timers[1].dataPoints[i].id,
                        features |-> timers[1].dataPoints[i].features,
                        memberships |-> outcome.membershipMatrix[i],
                        color |-> interpolateClusterColor(outcome.membershipMatrix[i],
                                                          CLUSTER_COLORS)]]
              /\ isRunning' = FALSE
              /\ animation' = [animation EXCEPT
                                  !.currentFrame = Len(outcome.iterationHistory) - 1,
                                  !.totalFrames = Len(outcome.iterationHistory)]
    /\ UNCHANGED <<dataPoints, isLoadingData, dataSource, storeConfig, imports>>

resetClustering ==
    /\ storeResult' = Null
    /\ processedPoints' = <<>>
    /\ animation' = DEFAULT_ANIMATION
    /\ UNCHANGED <<dataPoints, isLoadingData, dataSource, storeConfig, isRunning,
                   timers, imports>>

\* the fields the animation handlers leave alone
AnimationOnly ==
    UNCHANGED <<dataPoints, isLoadingData, dataSource, storeConfig, storeResult,
                isRunning, processedPoints, timers, imports>>

playAnimation ==
    /\ IF storeResult = Null \/ Len(storeResult.iterationHistory) = 0
       THEN UNCHANGED animation
       ELSE animation' = [animation EXCEPT !.isPlaying = TRUE, !.currentFrame = 0]
    /\ AnimationOnly

pauseAnimation ==
    /\ animation' = [animation EXCEPT !.isPlaying = FALSE]
    /\ AnimationOnly

stopAnimation ==
    /\ animation' = [animation EXCEPT
                        !.isPlaying = FALSE,
                        !.currentFrame = IF storeResult # Null
                                         THEN Len(storeResult.iterationHistory) - 1 ELSE 0]
    /\ AnimationOnly

\* a mutation of stepForward: the new frame is not capped by totalFrames - 1
stepForwardUncapped ==
    /\ animation' = [animation EXCEPT !.currentFrame = animation.currentFrame + 1,
                                      !.isPlaying = FALSE]
    /\ AnimationOnly

stepForward ==
    /\ LET newFrame == IF animation.currentFrame + 1 < animation.totalFrames - 1
                       THEN animation.currentFrame + 1 ELSE animation.totalFrames - 1
       IN  animation' = [animation EXCEPT !.currentFrame = newFrame, !.isPlaying = FALSE]
    /\ AnimationOnly

stepBackward ==
    /\ animation' = [animation EXCEPT
                        !.currentFrame = IF animation.currentFrame - 1 > 0
                                         THEN animation.currentFrame - 1 ELSE 0,
                        !.isPlaying = FALSE]
    /\ AnimationOnly

setAnimationFrame(frame) ==
    /\ LET capped == IF frame < animation.totalFrames - 1
                     THEN frame ELSE animation.totalFrames - 1
       IN  animation' = [animation EXCEPT !.currentFrame = IF capped > 0 THEN capped ELSE 0]
    /\ AnimationOnly

setPlaybackSpeed(fps) ==
    /\ animation' = [animation EXCEPT
                        !.playbackSpeed = RMax(Rat(1, 2), RMin(Num(10), fps))]
    /\ AnimationOnly

\* both stores as created
AppIdle == DiagIdle /\ WaterIdle

(***************************************************************************)
(* Specification of single calculateMembership calls on arbitrary          *)
(* trapezoidal sets: the set is drawn with a <= b <= c <= d on the integer *)
(* grid 0..MaxSetPoint, the value on the half-integer grid around it.      *)
(***************************************************************************)
MaxSetPoint == 3

TrapezoidalSets ==
    { [name |-> "s", points |-> <<Num(a), Num(b), Num(c), Num(d)>>] :
        <<a, b, c, d>> \in
          { q \in (0..MaxSetPoint) \X (0..MaxSetPoint) \X (0..MaxSetPoint) \X (0..MaxSetPoint) :
              q[1] <= q[2] /\ q[2] <= q[3] /\ q[3] <= q[4] } }

MembershipValues == { Rat(h, 2) : h \in (-2)..(2 * MaxSetPoint + 2) }

MemIdle == mSet = None /\ mValue = NoNumber /\ mResult = NoNumber
FisIdle == ruleBase = FUZZY_RULES /\ catalogues = Catalogues /\ fisLog = <<>>
RiskIdle == rRow = <<>> /\ rResult = <<>>
FcmIdle ==
    /\ data = <<>> /\ config = <<>> /\ pc = "Idle" /\ seeds = <<>>
    /\ centroids = <<>> /\ memberships = <<>> /\ prevMemberships = <<>>
    /\ iteration = 0 /\ converged = FALSE /\ iterationHistory = <<>>
    /\ passLog = <<>> /\ fcmResult = <<>> /\ fcmError = None

InitMembership ==
    /\ mSet \in TrapezoidalSets
    /\ mValue = NoNumber
    /\ mResult = NoNumber
    /\ FisIdle
    /\ RiskIdle
    /\ FcmIdle
    /\ AppIdle

EvaluateMembership ==
    /\ mResult = NoNumber
    /\ \E v \in MembershipValues :
         /\ mValue' = v
         /\ mResult' = calculateMembership(v, mSet)
    /\ UNCHANGED <<mSet>>
    /\ UNCHANGED <<fisVars, riskVars, fcmVars, appVars>>

NextMembership == EvaluateMembership

SpecMembership == InitMembership /\ [][NextMembership]_vars

PlateauCentre(set) == RDiv(RAdd(set.points[2], set.points[3]), Num(2))

TurbidityMax == 1000
SweepSteps == {1, 10, 100}

SweepInputs(t) == [turbidity |-> Num(t), ph |-> Num(7), temperature |-> Num(22)]


InitSweep ==
    /\ ruleBase = FUZZY_RULES
    /\ catalogues = Catalogues
    /\ fisLog = <<>>
    /\ MemIdle
    /\ RiskIdle
    /\ FcmIdle
    /\ AppIdle

SweepStart ==
    /\ fisLog = <<>>
    /\ \E t \in 0..TurbidityMax : RunFuzzyInference(SweepInputs(t), <<>>)
    /\ UNCHANGED <<memVars, riskVars, fcmVars, appVars>>

SweepRaise ==
    /\ fisLog # <<>>
    /\ \E s \in SweepSteps :
         LET last == fisLog[Len(fisLog)]
             t == last.inputs.turbidity[1] + s
         IN  /\ t <= TurbidityMax
             /\ RunFuzzyInference(SweepInputs(t), <<last>>)
    /\ UNCHANGED <<memVars, riskVars, fcmVars, appVars>>

NextSweep == SweepStart \/ SweepRaise

SpecSweep == InitSweep /\ [][NextSweep]_vars

\* C6: with ph = 7 and temperature = 22, a turbidity t2 >= t1 in 0..1000
\* never gets a lower coagulantDose than t1.
C6_DoseMonotone ==
    Len(fisLog) = 2 =>
        (RLe(fisLog[1].inputs.turbidity, fisLog[2].inputs.turbidity)
           => RLe(fisLog[1].outputs.coagulantDose, fisLog[2].outputs.coagulantDose))

\* C6 without the upper end of the range: holds for turbidity below 1000
C6_DoseMonotoneBelowMax ==
    (Len(fisLog) = 2 /\ fisLog[2].inputs.turbidity[1] < TurbidityMax) =>
        RLe(fisLog[1].outputs.coagulantDose, fisLog[2].outputs.coagulantDose)

\* C8: the call {turbidity: 800, ph: 7, temperature: 22} fires only rules
\* whose turbidity condition is muy_alta or alta, returns riskLevel critical
\* and a coagulantDose above 70 and above the dose for turbidity 50.
C8_HighTurbidityScenario ==
    \A i \in DOMAIN fisLog :
        fisLog[i].inputs = SweepInputs(800) =>
            LET out == fisLog[i].outputs
            IN  /\ \A r \in DOMAIN out.ruleActivations :
                     /\ "turbidity" \in DOMAIN out.ruleActivations[r].conditions
                     /\ out.ruleActivations[r].conditions.turbidity \in {"muy_alta", "alta"}
                /\ out.riskLevel = "critical"
                /\ RLt(Num(70), out.coagulantDose)
                /\ RLt(runFuzzyInference(SweepInputs(50), FUZZY_RULES, Catalogues).coagulantDose,
                       out.coagulantDose)

C8_Witness ==
    /\ Len(fisLog) = 2
    /\ fisLog[2].inputs = SweepInputs(800)
    /\ Len(fisLog[2].outputs.ruleActivations) >= 1
    /\ fisLog[2].outputs.coagulantDose = Num(95)

(***************************************************************************)
(* Specification of repeated runFuzzyInference calls: a first call on any  *)
(* input of the grid, then calls that repeat it or take another input.     *)
(***************************************************************************)
MaxCalls == 3

InferenceInputs ==
    { [turbidity |-> Num(t), ph |-> Rat(p, 10), temperature |-> Num(c)] :
        t \in {0, 12, 55, 175, 450, 800}, p \in {52, 60, 63, 70, 80, 92}, c \in {10, 16, 22, 27} }

OtherInputs ==
    { [turbidity |-> Num(175), ph |-> Rat(63, 10), temperature |-> Num(16)],
      [turbidity |-> Num(1000), ph |-> Num(7), temperature |-> Num(22)] }

InitInference ==
    /\ ruleBase = FUZZY_RULES
    /\ catalogues = Catalogues
    /\ fisLog = <<>>
    /\ MemIdle
    /\ RiskIdle
    /\ FcmIdle
    /\ AppIdle

FirstCall ==
    /\ fisLog = <<>>
    /\ \E inputs \in InferenceInputs : RunFuzzyInference(inputs, fisLog)
    /\ UNCHANGED <<memVars, riskVars, fcmVars, appVars>>

LaterCall ==
    /\ fisLog # <<>>
    /\ Len(fisLog) < MaxCalls
    /\ \E inputs \in OtherInputs \cup {fisLog[1].inputs} : RunFuzzyInference(inputs, fisLog)
    /\ UNCHANGED <<memVars, riskVars, fcmVars, appVars>>

NextInference == FirstCall \/ LaterCall

SpecInference == InitInference /\ [][NextInference]_vars

MaxRowLength == 3

\* the entries of a row, in hundredths
RowEntries == {0, 2, 8, 10, 20, 30, 40, 50, 60, 70, 80, 90, 100}

RECURSIVE SumOf(_)
SumOf(s) == IF s = <<>> THEN 0 ELSE s[1] + SumOf(Tail(s))

MembershipRows ==
    UNION { { [i \in 1..len |-> Rat(row[i], 100)] :
                row \in { r \in [1..len -> RowEntries] : SumOf(r) = 100 } } :
            len \in 1..MaxRowLength }

InitRisk ==
    /\ rRow \in MembershipRows
    /\ rResult = <<>>
    /\ MemIdle
    /\ FisIdle
    /\ FcmIdle
    /\ AppIdle

AnalyzeRisk ==
    /\ rResult = <<>>
    /\ rResult' = <<analyzeRisk(rRow, CLUSTER_NAMES)>>
    /\ UNCHANGED <<rRow, memVars, fisVars, fcmVars, appVars>>

NextRisk == AnalyzeRisk

SpecRisk == InitRisk /\ [][NextRisk]_vars

\* the score the claim gives: round(40 * second-to-last + 100 * last) in
\* [0,100], an entry that does not exist counting 0
ClaimedRiskScore(row) ==
    LET k == Len(row)
        score == MathRound(RAdd(RMul(IF k >= 2 THEN row[k - 1] ELSE Zero, Num(40)),
                                RMul(row[k], Num(100))))
    IN  IF score > 100 THEN 100 ELSE IF score < 0 THEN 0 ELSE score

\* C10: for every membership row of length k >= 1 analyzeRisk returns
\* riskScore = round(40*row[k-2] + 100*row[k-1]) clamped to [0,100]; the row
\* [0.9, 0.08, 0.02] gets riskScore 5 and riskCategory low.
C10_RiskScore ==
    rResult # <<>> =>
        /\ rResult[1].riskScore = ClaimedRiskScore(rRow)
        /\ (rRow = <<Rat(9, 10), Rat(8, 100), Rat(2, 100)>> =>
              rResult[1].riskScore = 5 /\ rResult[1].riskCategory = "low")

C10_Witness ==
    /\ rRow = <<Rat(9, 10), Rat(8, 100), Rat(2, 100)>>
    /\ rResult # <<>>
    /\ rResult[1].riskScore = 5

(***************************************************************************)
(* Specification of single runFCM calls: up to MaxPoints points taken,     *)
(* repetitions allowed, from one- and two-dimensional feature vectors (so  *)
(* that point sets of mixed dimensions occur), 1 to MaxClusters clusters,  *)
(* 0 to MaxIterations passes allowed, with and without history.            *)
(***************************************************************************)
MaxPoints == 3
MaxClusters == 2
MaxIterations == 3

FeatureVectors == << <<0>>, <<1>>, <<4>>, <<0, 0>>, <<3, 4>> >>

\* 1/2 is the change of the first pass on two clusters
Tolerances == {Rat(1, 100), Rat(1, 2)}

\* the point lists: the vectors in the order of FeatureVectors (runFCM
\* treats the points alike; the shuffle takes any of them as seeds)
PointLists ==
    UNION { { [i \in 1..n |-> [d \in DOMAIN FeatureVectors[pick[i]] |->
                                  Num(FeatureVectors[pick[i]][d])]] :
                pick \in { p \in [1..n -> DOMAIN FeatureVectors] :
                             \A i \in 1..(n - 1) : p[i] <= p[i + 1] } } :
            n \in 0..MaxPoints }

Configs ==
    [clusterCount : 1..MaxClusters,
     fuzziness : {Fuzziness},
     maxIterations : 0..MaxIterations,
     tolerance : Tolerances,
     trackHistory : BOOLEAN]

InitFCM ==
    /\ data \in PointLists
    /\ config \in Configs
    /\ pc = "Called"
    /\ seeds = <<>>
    /\ centroids = <<>> /\ memberships = <<>> /\ prevMemberships = <<>>
    /\ iteration = 0 /\ converged = FALSE /\ iterationHistory = <<>>
    /\ passLog = <<>> /\ fcmResult = <<>> /\ fcmError = None
    /\ MemIdle
    /\ FisIdle
    /\ RiskIdle
    /\ AppIdle

NextFCM ==
    \/ Validate /\ UNCHANGED <<memVars, fisVars, riskVars, appVars>>
    \/ InitializeCentroids /\ UNCHANGED <<memVars, fisVars, riskVars, appVars>>
    \/ Iterate /\ UNCHANGED <<memVars, fisVars, riskVars, appVars>>
    \/ Return /\ UNCHANGED <<memVars, fisVars, riskVars, appVars>>

SpecFCM == InitFCM /\ [][NextFCM]_vars

Returned == pc \in {"Converged", "MaxIterationsReached"}

\* the points do not all have feature vectors of one length
MixedDimensions == \E i, j \in DOMAIN data : Len(data[i]) # Len(data[j])

\* the arguments pass the checks of runFCM
Accepted == Len(data) > 0 /\ config.clusterCount <= Len(data)

\* the matrices a returned call hands out: the result's and the history's
ReturnedMatrices ==
    {fcmResult[1].membershipMatrix} \cup
    { fcmResult[1].iterationHistory[h].membershipMatrix :
        h \in DOMAIN fcmResult[1].iterationHistory }

\* the rounding of the k normalising divisions of a row, half a unit each
RowSumSlack(k) == Rat(k, 2 * Scale)

C2_InvalidInputFails ==
    ~Accepted =>
        /\ pc \in {"Called", "Failed"}
        /\ seeds = <<>> /\ centroids = <<>>
        /\ passLog = <<>> /\ iteration = 0
        /\ fcmResult = <<>>
        /\ (pc = "Failed" <=> fcmError # None)

\* C2 witness: a failed call with more clusters than points
C2_Witness ==
    /\ Len(data) > 0 /\ config.clusterCount > Len(data)
    /\ pc = "Failed" /\ fcmError # None

\* C3: on points of mixed dimensions (1 <= clusterCount <= n,
\* maxIterations >= 1) no pass completes and nothing is returned, whatever
\* the seeds; the call ends failed with the dimension error.
C3_MixedDimensionsFail ==
    (MixedDimensions /\ Accepted /\ config.maxIterations >= 1) =>
        /\ pc \in {"Called", "Initializing", "Iterating", "Failed"}
        /\ fcmResult = <<>>
        /\ passLog = <<>>
        /\ (pc = "Iterating" => LoopContinues(iteration, config.maxIterations, converged))
        /\ (pc = "Failed" => fcmError = "Dimensiones no coinciden")

\* C3 witness: a failed call whose seeds all have one dimension while a
\* point of the other dimension is in the list
C3_Witness ==
    /\ MixedDimensions /\ Accepted /\ config.maxIterations >= 1
    /\ pc = "Failed"
    /\ \A a, b \in DOMAIN seeds : Len(data[seeds[a]]) = Len(data[seeds[b]])
    /\ Len(seeds) = 2

\* the arguments C4 calls valid
ValidInput == Accepted /\ ~MixedDimensions /\ config.maxIterations >= 1

\* the steps a call can still take: the checks, the seeding, the passes
\* left in the budget and the return
StepsLeft ==
    CASE pc = "Called" -> config.maxIterations + 3
      [] pc = "Initializing" -> config.maxIterations + 2
      [] pc = "Iterating" -> (config.maxIterations - iteration) + 1
      [] OTHER -> 0

\* C4: a call on valid input terminates: it goes Initializing -> Iterating
\* -> Converged or MaxIterationsReached, every step using up one of a
\* finite count of steps left and no position short of the return being
\* without a step; it runs between 1 and maxIterations passes and returns
\* the number of passes run as iterationCount.
C4_Terminates ==
    /\ [](ValidInput =>
            /\ \/ pc = "Called"
               \/ pc = "Initializing"
                    /\ SeedChoices(Len(data), config.clusterCount) # {}
               \/ pc = "Iterating"
               \/ Returned
            /\ StepsLeft >= 0
            /\ Len(passLog) <= config.maxIterations
            /\ (Returned =>
                  /\ fcmResult[1].iterationCount = Len(passLog)
                  /\ 1 <= fcmResult[1].iterationCount
                  /\ fcmResult[1].iterationCount <= config.maxIterations))
    /\ [][ValidInput =>
            /\ \/ pc = "Called" /\ pc' = "Initializing"
               \/ pc = "Initializing" /\ pc' = "Iterating"
               \/ pc = "Iterating" /\ pc' = "Iterating"
                    /\ Len(passLog') = Len(passLog) + 1
               \/ pc = "Iterating" /\ pc' \in {"Converged", "MaxIterationsReached"}
            /\ StepsLeft' < StepsLeft]_vars

\* C4 witness: a call returned after running all of its three passes
C4_Witness ==
    /\ ValidInput
    /\ pc = "MaxIterationsReached"
    /\ fcmResult[1].iterationCount = 3

\* C5: on return converged is true exactly when the change of the last
\* pass was below tolerance; every pass before the last had a change not
\* below tolerance; converged = false implies iterationCount = maxIterations.
C5_ConvergedFlag ==
    Returned =>
        /\ (fcmResult[1].converged <=>
              (passLog # <<>> /\ RLt(passLog[Len(passLog)], config.tolerance)))
        /\ \A p \in 1..(Len(passLog) - 1) : ~RLt(passLog[p], config.tolerance)
        /\ (~fcmResult[1].converged =>
              fcmResult[1].iterationCount = config.maxIterations)

\* C5 witness: a call that converged on its second pass, one pass short of
\* the budget
C5_Witness ==
    /\ pc = "Converged"
    /\ fcmResult[1].converged
    /\ Len(passLog) = 2
    /\ config.maxIterations = 3
    /\ RLt(Zero, passLog[2])

\* the row that puts a point wholly in cluster j
UnitRow(j, k) == [l \in 1..k |-> IF l = j THEN One ELSE Zero]

\* the seeds are points of pairwise different feature vectors
SeedsDiffer == \A a, b \in DOMAIN seeds : a # b => data[seeds[a]] # data[seeds[b]]

\* C11: after the first membership update every point drawn as the seed of
\* cluster j has membership 1 to cluster j and 0 to every other cluster,
\* duplicate points included.
C11_SeedsGetHardMembership ==
    Len(passLog) = 1 =>
        \A j \in DOMAIN seeds :
            \A l \in 1..config.clusterCount :
                memberships[seeds[j]][l] = UnitRow(j, config.clusterCount)[l]

\* C11 on seeds of pairwise different feature vectors, where it holds
C11_DistinctSeedsGetHardMembership ==
    (Len(passLog) = 1 /\ SeedsDiffer) =>
        \A j \in DOMAIN seeds :
            \A l \in 1..config.clusterCount :
                memberships[seeds[j]][l] = UnitRow(j, config.clusterCount)[l]

(***************************************************************************)
(* The divisions the two engines evaluate, by their divisors               *)
(***************************************************************************)
\* a number that is neither NaN nor an Infinity
IsFinite(x) == x[2] # 0

\* the index of the first zero distance, k + 1 when there is none
FirstZero(distances, k) ==
    IF \E l \in 1..k : distances[l] = Zero
    THEN CHOOSE l \in 1..k : distances[l] = Zero /\ \A n \in 1..(l - 1) : distances[n] # Zero
    ELSE k + 1

\* a mutation of RowDivisors: the inner loop divides before it looks for a
\* zero distance
RowDivisorsUnchecked(row, distances, k, m) ==
    IF FirstZero(distances, k) = 1 THEN {}
    ELSE { distances[l] : l \in 1..k } \cup {Num(m - 1)}

\* the divisors of the membership update of one row: below the first zero
\* distance z the loop over l divides by distances[1..z-1] and stops at z
\* (line 345, with the exponent's m - 1); 1 / sumRatios is evaluated when
\* sumRatios is not Infinity (line 348); the row is divided by its sum when
\* the sum is positive (line 354)
RowDivisors(row, distances, k, m) ==
    LET z == FirstZero(distances, k)
        sum == RSum(MembershipRowFrom(row, distances, 1, k, m))
    IN  (IF z = 1 THEN {} ELSE { distances[l] : l \in 1..(z - 1) } \cup {Num(m - 1)})
        \cup (IF z = k + 1
              THEN { SumRatiosFrom(distances, j, 1, k, Zero, m) : j \in 1..k }
              ELSE {})
        \cup (IF RLt(Zero, sum) THEN {sum} ELSE {})

\* a mutation of CentroidDivisors: the sums are divided by any weight sum
CentroidDivisorsUnguarded(points, rows, k, m) ==
    { RSum(Array([i \in DOMAIN points |-> Pow(rows[i][j], m)])) : j \in 1..k }

\* the divisors of the centroid update: a weight sum that is positive
\* (line 381)
CentroidDivisors(points, rows, k, m) ==
    { weightSum \in { RSum(Array([i \in DOMAIN points |-> Pow(rows[i][j], m)])) : j \in 1..k } :
        RLt(Zero, weightSum) }

\* the divisors of one pass of the main loop
PassDivisors(points, cents, rows, k, m) ==
    UNION { RowDivisors(rows[i],
                        Array([j \in DOMAIN cents |->
                                 euclideanDistanceSq(points[i], cents[j])]),
                        k, m) : i \in DOMAIN points }
    \cup UNION { CentroidDivisors(points, newRows, k, m) :
                   newRows \in {UpdateMemberships(points, cents, rows, k, m)} }

\* the numbers of a matrix (an array of arrays of numbers)
MatrixNumbers(matrix) ==
    UNION { { matrix[i][j] : j \in DOMAIN matrix[i] } : i \in DOMAIN matrix }

\* the numbers in the fields of an FCMResult
ResultNumbers(result) ==
    MatrixNumbers(result.centroids) \cup MatrixNumbers(result.membershipMatrix)
    \cup {result.convergenceError}
    \cup UNION { MatrixNumbers(result.iterationHistory[h].centroids)
                 \cup MatrixNumbers(result.iterationHistory[h].membershipMatrix)
                 \cup {result.iterationHistory[h].convergenceError,
                       result.iterationHistory[h].objectiveFunction} :
                 h \in DOMAIN result.iterationHistory }

\* the divisor of calculateMembership: the width of the slope the value is on
MembershipDivisors(value, set) ==
    LET a == set.points[1]
        b == set.points[2]
        c == set.points[3]
        d == set.points[4]
    IN  IF RLe(value, a) \/ RLe(d, value) THEN {}
        ELSE IF RLe(b, value) /\ RLe(value, c) THEN {}
        ELSE IF RLt(a, value) /\ RLt(value, b) THEN {RSub(b, a)}
        ELSE IF RLt(c, value) /\ RLt(value, d) THEN {RSub(d, c)}
        ELSE {}

getMembershipsDivisors(value, sets) ==
    UNION { MembershipDivisors(value, sets[i]) : i \in DOMAIN sets }

\* the divisors of defuzzify: the 2 of the centre of every active set, and
\* the sum of the activations when it is positive
defuzzifyDivisors(activations, sets) ==
    LET active == { i \in DOMAIN sets : RLt(Zero, MapGet(activations, sets[i].name)) }
        denominator ==
            RSum([i \in DOMAIN sets |->
                    IF i \in active THEN MapGet(activations, sets[i].name) ELSE Zero])
    IN  (IF active = {} THEN {} ELSE {Num(2)})
        \cup (IF RLt(Zero, denominator) THEN {denominator} ELSE {})

\* the divisors of a runFuzzyInference call
runFuzzyInferenceDivisors(inputs, rules, cat) ==
    LET mu == [turbidity |-> getMemberships(inputs.turbidity, cat.turbidity),
               ph |-> getMemberships(inputs.ph, cat.ph),
               temperature |-> getMemberships(inputs.temperature, cat.temperature)]
        acc == EvaluateRules(rules, 1, RuleLoopStart, mu)
        coagulantDose == defuzzify(acc.doseActivations, cat.dose)
    IN  getMembershipsDivisors(inputs.turbidity, cat.turbidity)
        \cup getMembershipsDivisors(inputs.ph, cat.ph)
        \cup getMembershipsDivisors(inputs.temperature, cat.temperature)
        \cup defuzzifyDivisors(acc.doseActivations, cat.dose)
        \cup defuzzifyDivisors(acc.timeActivations, cat.time)
        \cup (IF RLt(Zero, acc.totalWeight) THEN {acc.totalWeight} ELSE {})
        \cup (IF RLt(Zero, coagulantDose) THEN {inputs.turbidity} ELSE {})
        \cup {Num(10), Num(20), Num(1000)}

\* the numbers in the fields of a FuzzyOutputs
OutputNumbers(outputs) ==
    {outputs.coagulantDose, outputs.flocculationTime, outputs.phCorrectionAmount,
     outputs.operationalCost, Num(outputs.qualityScore), Num(outputs.efficiency)}
    \cup { outputs.ruleActivations[i].firingStrength : i \in DOMAIN outputs.ruleActivations }

(***************************************************************************)
(* Specification of single calls of either engine: a runFCM call as in     *)
(* SpecFCM or runFuzzyInference calls as in SpecInference.                 *)
(***************************************************************************)
InitCalls == InitFCM \/ InitInference

NextCalls ==
    \/ NextFCM
    \/ pc = "Idle" /\ NextInference

SpecCalls == InitCalls /\ [][NextCalls]_vars

\* C12: a valid call evaluates no division with a zero divisor, and no NaN
\* or Infinity is in a field of what it returns: for runFCM (non-empty
\* points, 1 <= clusterCount <= n) the 1/k of the initial rows, every pass
\* about to run and the result; for runFuzzyInference every call made.
C12_NoZeroDivisorNoNaN ==
    /\ (pc = "Initializing" => Num(config.clusterCount) # Zero)
    /\ (/\ pc = "Iterating"
        /\ LoopContinues(iteration, config.maxIterations, converged)
        /\ ~\E i \in DOMAIN data, j \in DOMAIN centroids :
               euclideanDistanceThrows(data[i], centroids[j]))
         => Zero \notin PassDivisors(data, centroids, memberships,
                                     config.clusterCount, config.fuzziness)
    /\ (Returned => \A x \in ResultNumbers(fcmResult[1]) : IsFinite(x))
    /\ \A c \in DOMAIN fisLog :
          /\ Zero \notin runFuzzyInferenceDivisors(fisLog[c].inputs, ruleBase, catalogues)
          /\ \A x \in OutputNumbers(fisLog[c].outputs) : IsFinite(x)

\* C12 witness: a run returned after a pass in which a point lay on a
\* centroid and a cluster had weight sum 0, the two guarded divisions
C12_Witness ==
    /\ Returned
    /\ Len(passLog) >= 1
    /\ \E a, b \in DOMAIN seeds : a # b /\ data[seeds[a]] = data[seeds[b]]
    /\ \E j \in 1..config.clusterCount :
          \A i \in DOMAIN data : fcmResult[1].membershipMatrix[i][j] = Zero

(***************************************************************************)
(* Specification of calls on any numbers: the calls of SpecCalls, and      *)
(* runFCM calls on point lists in which a feature is NaN (runFCM takes any *)
(* number[] as features and checks none of them).                          *)
(***************************************************************************)
FeatureVectorsWithNaN == << <<Num(0)>>, <<Num(4)>>, <<NaN>> >>

PointListsWithNaN ==
    UNION { { [i \in 1..n |-> FeatureVectorsWithNaN[pick[i]]] :
                pick \in { p \in [1..n -> DOMAIN FeatureVectorsWithNaN] :
                             /\ \A i \in 1..(n - 1) : p[i] <= p[i + 1]
                             /\ \E i \in 1..n : FeatureVectorsWithNaN[p[i]] = <<NaN>> } } :
            n \in 1..MaxPoints }

InitFCMWithNaN ==
    /\ data \in PointListsWithNaN
    /\ config \in Configs
    /\ pc = "Called"
    /\ seeds = <<>>
    /\ centroids = <<>> /\ memberships = <<>> /\ prevMemberships = <<>>
    /\ iteration = 0 /\ converged = FALSE /\ iterationHistory = <<>>
    /\ passLog = <<>> /\ fcmResult = <<>> /\ fcmError = None
    /\ MemIdle
    /\ FisIdle
    /\ RiskIdle
    /\ AppIdle

SpecCallsAnyNumber == (InitCalls \/ InitFCMWithNaN) /\ [][NextCalls]_vars

(***************************************************************************)
(* Specification of the diagnostics store                                  *)
(***************************************************************************)
MaxTimers == 1      \* runClustering callbacks waiting at once
MaxImports == 1     \* CSV parses under way at once

\* ids are a letter and a number: M0000 is <<"M", 0>>, P1 is <<"P", 1>>
PointA == [id |-> <<"M", 0>>, features |-> <<Zero, Zero>>]
PointB == [id |-> <<"M", 1>>, features |-> <<Num(4), Zero>>]

\* what generateSyntheticData may return: the generated points in the order
\* the closing shuffle leaves them in
SyntheticData == { <<PointA, PointB>>, <<PointB, PointA>> }

\* parsed files of two numeric columns, with and without an id column, one
\* with a cell that is no number
CsvFiles ==
    { << [id |-> Null, cells |-> <<Zero, Zero>>],
         [id |-> Null, cells |-> <<Num(4), NaN>>] >>,
      << [id |-> <<"S", 1>>, cells |-> <<Num(4), Zero>>] >> }

ConfigUpdates == { [clusterCount |-> 2], [maxIterations |-> 0] }

FrameInputs == {-1, 0, 1, 5}

SpeedInputs == { Rat(1, 4) }

InitDiagnostics ==
    /\ MemIdle
    /\ FisIdle
    /\ RiskIdle
    /\ FcmIdle
    /\ AppIdle

\* the diagnostics store acts: nothing else changes
DiagOnly == UNCHANGED <<memVars, fisVars, riskVars, fcmVars, waterVars>>

\* a store action called by the page: no callback runs
Called == DiagOnly /\ UNCHANGED lastCallback

NextDiagnostics ==
    \/ imports < MaxImports /\ ImportCSV /\ Called
    \/ ImportRejected /\ Called
    \/ \E rows \in CsvFiles : ImportComplete(rows) /\ Called
    \/ \E points \in SyntheticData : generateSynthetic(points) /\ Called
    \/ clearData /\ Called
    \/ \E newConfig \in ConfigUpdates : updateConfig(newConfig) /\ Called
    \/ Len(timers) < MaxTimers /\ runClustering /\ Called
    \/ ClusteringDone /\ DiagOnly
    \/ resetClustering /\ Called
    \/ playAnimation /\ Called
    \/ pauseAnimation /\ Called
    \/ stopAnimation /\ Called
    \/ stepForward /\ Called
    \/ stepBackward /\ Called
    \/ \E frame \in FrameInputs : setAnimationFrame(frame) /\ Called
    \/ \E fps \in SpeedInputs : setPlaybackSpeed(fps) /\ Called

SpecDiagnostics == InitDiagnostics /\ [][NextDiagnostics]_vars

\* a step in which the timer queue runs its oldest callback (in
\* SpecDiagnostics these are the ClusteringDone steps)
CallbackRuns == timers # <<>> /\ timers' = Tail(timers)

\* the timer queue runs every callback put on it: a waiting callback is
\* not left waiting for ever
SpecDiagnosticsTimed == SpecDiagnostics /\ WF_timers(CallbackRuns)

(***************************************************************************)
(* Specification of the water store: the setters are called with values    *)
(* inside and outside the ranges, the simulation is run on predefined      *)
(* scenarios, with updateSimulation called at a fixed frame interval.      *)
(***************************************************************************)
Keyframe(time, turbidity, phTenths, temperature) ==
    [time |-> Num(time), turbidity |-> Num(turbidity), ph |-> Rat(phTenths, 10),
     temperature |-> Num(temperature)]

STORM_SCENARIO ==
    [id |-> "storm", duration |-> Num(30000),
     keyframes |-> << Keyframe(0, 50, 70, 22), Keyframe(3000, 200, 68, 20),
                      Keyframe(6000, 650, 65, 18), Keyframe(10000, 800, 63, 17),
                      Keyframe(15000, 500, 65, 18), Keyframe(20000, 250, 67, 19),
                      Keyframe(25000, 120, 69, 21), Keyframe(30000, 60, 70, 22) >>]

RECOVERY_SCENARIO ==
    [id |-> "recovery", duration |-> Num(20000),
     keyframes |-> << Keyframe(0, 600, 50, 30), Keyframe(4000, 400, 58, 28),
                      Keyframe(8000, 200, 65, 26), Keyframe(12000, 100, 69, 24),
                      Keyframe(16000, 50, 70, 22), Keyframe(20000, 25, 71, 21) >>]

\* two of ALL_SCENARIOS
Scenarios == { STORM_SCENARIO, RECOVERY_SCENARIO }

\* the time between two frames, in ms: the deltaTime of updateSimulation
\* (0 in the first frame of the loop of SimulationControls)
FrameInterval == Num(10000)
DeltaTimes == { Zero, FrameInterval }

TurbidityInputs == { Num(1200) }
PhInputs == { Num(-1) }
TemperatureInputs == { Num(45) }
ParameterInputs == { [ph |-> Num(15), temperature |-> Num(-3)] }
SpeedSettings == { Num(8) }

InitWater ==
    /\ MemIdle
    /\ FisIdle
    /\ RiskIdle
    /\ FcmIdle
    /\ AppIdle

\* the water store acts: nothing else changes
WaterOnly == UNCHANGED <<memVars, riskVars, fisVars, fcmVars, diagVars>>

NextWater ==
    \/ \E value \in TurbidityInputs : setTurbidity(value) /\ WaterOnly
    \/ \E value \in PhInputs : setPh(value) /\ WaterOnly
    \/ \E value \in TemperatureInputs : setTemperature(value) /\ WaterOnly
    \/ \E params \in ParameterInputs : setParameters(params) /\ WaterOnly
    \/ runInference /\ WaterOnly
    \/ \E scenario \in Scenarios : startSimulation(scenario) /\ WaterOnly
    \/ stopSimulation /\ WaterOnly
    \/ pauseSimulation /\ WaterOnly
    \/ resumeSimulation /\ WaterOnly
    \/ \E deltaTime \in DeltaTimes : updateSimulation(deltaTime) /\ WaterOnly
    \/ \E speed \in SpeedSettings : setSimulationSpeed(speed) /\ WaterOnly
    \/ reset /\ WaterOnly
    \/ clearHistory /\ WaterOnly

SpecWater == InitWater /\ [][NextWater]_vars

\* what a frame of the loop of SimulationControls does to the simulation
\* clock: updateSimulation with the time since the last frame
FrameRuns ==
    /\ isSimulating
    /\ currentScenario # Null
    /\ \E newElapsedTime \in {RAdd(simulationElapsedTime,
                                   RMul(FrameInterval, simulationSpeed))} :
         IF SimulationEnded(newElapsedTime, currentScenario.duration)
         THEN simulationElapsedTime' = Zero /\ currentScenario' = Null
         ELSE simulationElapsedTime' = newElapsedTime /\ UNCHANGED currentScenario

\* while isSimulating the loop requests frame after frame: a running
\* simulation is not left without a frame for ever
SpecWaterFramed ==
    SpecWater /\ WF_<<simulationElapsedTime, currentScenario>>(FrameRuns)

(***************************************************************************)
(* Claims about the rule loop of runFuzzyInference, checked on the calls   *)
(* of SpecInference.                                                       *)
(***************************************************************************)
\* the set of a variable's catalogue that carries a name
NamedSet(variable, name) ==
    LET sets == Catalogues[variable]
    IN  sets[CHOOSE i \in DOMAIN sets : sets[i].name = name]

\* the membership degrees of an input in the sets a rule names
NamedDegrees(rule, inputs) ==
    { calculateMembership(inputs[v], NamedSet(v, rule.conditions[v])) :
        v \in DOMAIN rule.conditions }

\* the Mamdani AND of a rule on an input: the least of the named degrees
MamdaniStrength(rule, inputs) ==
    LET degrees == NamedDegrees(rule, inputs)
    IN  IF degrees = {} THEN Zero
        ELSE CHOOSE s \in degrees : \A d \in degrees : RLe(s, d)

\* the positions of a rule in a list of activations
EntriesOf(rule, fired) == { e \in DOMAIN fired : fired[e].id = rule.id }

\* C14: each rule's firing strength is the minimum of the membership degrees
\* of the conditions it names, and the returned ruleActivations holds exactly
\* the rules of positive strength, each once, with firingStrength in (0, 1].
C14_FiringStrengths ==
    \A c \in DOMAIN fisLog :
        LET inputs == fisLog[c].inputs
            fired == fisLog[c].outputs.ruleActivations
        IN  /\ \A r \in DOMAIN FUZZY_RULES :
                 LET rule == FUZZY_RULES[r]
                     strength == MamdaniStrength(rule, inputs)
                 IN  IF RLt(Zero, strength)
                     THEN /\ Cardinality(EntriesOf(rule, fired)) = 1
                          /\ \A e \in EntriesOf(rule, fired) :
                               /\ fired[e].firingStrength = strength
                               /\ fired[e].name = rule.name
                     ELSE EntriesOf(rule, fired) = {}
            /\ \A e \in DOMAIN fired :
                 /\ \E r \in DOMAIN FUZZY_RULES : FUZZY_RULES[r].id = fired[e].id
                 /\ RLt(Zero, fired[e].firingStrength)
                 /\ RLe(fired[e].firingStrength, One)

\* turbidity 175, ph 6.3, temperature 16: six rules fire, rule 8 at the degree
\* of its temperature condition, and rule 20 (temperature degree 0) does not
C14_Witness ==
    \E c \in DOMAIN fisLog :
        LET fired == fisLog[c].outputs.ruleActivations
        IN  /\ fisLog[c].inputs =
                 [turbidity |-> Num(175), ph |-> Rat(63, 10), temperature |-> Num(16)]
            /\ Len(fired) = 6
            /\ \E e \in DOMAIN fired :
                 fired[e].id = 8 /\ fired[e].firingStrength = Rat(1, 4)
            /\ \A e \in DOMAIN fired : fired[e].id # 20

\* the rules of the largest positive Mamdani strength on an input
StrongestRules(inputs) ==
    { r \in DOMAIN FUZZY_RULES :
        /\ RLt(Zero, MamdaniStrength(FUZZY_RULES[r], inputs))
        /\ \A q \in DOMAIN FUZZY_RULES :
             RLe(MamdaniStrength(FUZZY_RULES[q], inputs),
                 MamdaniStrength(FUZZY_RULES[r], inputs)) }

\* C15: the returned phCorrection is that of the fired rule of largest firing
\* strength, the earliest such rule of the rule base on a tie, and is "none"
\* when no rule fires.
C15_PhCorrectionOfStrongestRule ==
    \A c \in DOMAIN fisLog :
        LET strongest == StrongestRules(fisLog[c].inputs)
        IN  IF strongest = {}
            THEN fisLog[c].outputs.phCorrection = "none"
            ELSE \E r \in strongest :
                   /\ \A q \in strongest : r <= q
                   /\ fisLog[c].outputs.phCorrection = FUZZY_RULES[r].outputs.phCorrection

\* turbidity 450, ph 8: rules 9 (none) and 11 (moderate) tie at the top and
\* the earlier one decides; and a call in which no rule fires
C15_Witness ==
    /\ \E c \in DOMAIN fisLog :
         /\ StrongestRules(fisLog[c].inputs) = {9, 11}
         /\ fisLog[c].outputs.phCorrection = "none"
    /\ \E c \in DOMAIN fisLog :
         /\ StrongestRules(fisLog[c].inputs) = {}
         /\ fisLog[c].outputs.ruleActivations = <<>>

\* the position of a rule id in the rule base
RuleIndex(id) == CHOOSE r \in DOMAIN FUZZY_RULES : FUZZY_RULES[r].id = id

\* C16: the returned ruleActivations is ordered by non-increasing
\* firingStrength, rules of equal strength staying in rule-base order.
C16_ActivationsOrdered ==
    \A c \in DOMAIN fisLog :
        LET fired == fisLog[c].outputs.ruleActivations
        IN  \A i, j \in DOMAIN fired :
                i < j =>
                    /\ RLe(fired[j].firingStrength, fired[i].firingStrength)
                    /\ fired[i].firingStrength = fired[j].firingStrength
                         => RuleIndex(fired[i].id) < RuleIndex(fired[j].id)

\* turbidity 175, ph 6.3, temperature 16: the rules fire in the order
\* 5, 6, 8, 9, 10, 12 and are returned in the order 6, 8, 10, 12, 5, 9
C16_Witness ==
    \E c \in DOMAIN fisLog :
        LET fired == fisLog[c].outputs.ruleActivations
        IN  [e \in DOMAIN fired |-> fired[e].id] = <<6, 8, 10, 12, 5, 9>>

\* C17: when a rule fires, the rule the explanation names as 'Regla
\* principal' is the first entry of the returned ruleActivations (the rule of
\* largest firing strength) and the percentage shown is its firing strength.
C17_ExplanationNamesStrongestRule ==
    \A c \in DOMAIN fisLog :
        LET out == fisLog[c].outputs
            fired == out.ruleActivations
        IN  fired # <<>> =>
                /\ out.explanation.topRule = fired[1].name
                /\ out.explanation.topPercent =
                     ToFixed(RMul(fired[1].firingStrength, Num(100)), 0)

\* C17 as the code has it: the explanation names the first rule of the rule
\* base that fired, whatever its strength
C17_ExplanationNamesFirstFiredRule ==
    \A c \in DOMAIN fisLog :
        LET out == fisLog[c].outputs
            fired == out.ruleActivations
            first == CHOOSE e \in DOMAIN fired :
                        \A f \in DOMAIN fired :
                            RuleIndex(fired[e].id) <= RuleIndex(fired[f].id)
        IN  fired # <<>> =>
                /\ out.explanation.topRule = fired[first].name
                /\ out.explanation.topPercent =
                     ToFixed(RMul(fired[first].firingStrength, Num(100)), 0)

(***************************************************************************)
(* Claims about the quality score of runFuzzyInference (SpecInference).    *)
(***************************************************************************)
\* the defuzzified coagulant dose of an input, before it is rounded
DefuzzifiedDose(inputs) ==
    LET mu == [turbidity |-> getMemberships(inputs.turbidity, TURBIDITY_SETS),
               ph |-> getMemberships(inputs.ph, PH_SETS),
               temperature |-> getMemberships(inputs.temperature, TEMPERATURE_SETS)]
    IN  defuzzify(EvaluateRules(FUZZY_RULES, 1, RuleLoopStart, mu).doseActivations, DOSE_SETS)

\* the quality score an input gets with a given process factor
QualityWith(inputs, factor) ==
    LET turbidityFactor == RMax(Zero, RSub(Num(100), RDiv(inputs.turbidity, Num(10))))
        phFactor == RMax(Zero, RSub(Num(100), RMul(RAbs(RSub(inputs.ph, Num(7))), Num(15))))
        score == MathRound(RAdd(RAdd(RMul(turbidityFactor, Rat(1, 2)), RMul(phFactor, Rat(3, 10))),
                                RMul(factor, Rat(1, 5))))
    IN  IF score > 100 THEN 100 ELSE IF score < 0 THEN 0 ELSE score

\* min(100, (dose / turbidity) * 500)
DoseRatioFactor(inputs) ==
    RMin(Num(100), RMul(RDiv(DefuzzifiedDose(inputs), inputs.turbidity), Num(500)))

\* C18: for turbidity > 0 the process factor in qualityScore is
\* min(100, (dose / turbidity) * 500), dose being 0 when no rule fires; the
\* midpoint 50 is used only when turbidity is not greater than 0.
C18_ProcessFactorByTurbidity ==
    \A c \in DOMAIN fisLog :
        LET inputs == fisLog[c].inputs
        IN  fisLog[c].outputs.qualityScore =
                QualityWith(inputs, IF RLt(Zero, inputs.turbidity)
                                    THEN DoseRatioFactor(inputs) ELSE Num(50))

\* C18 amended: the process factor in qualityScore is
\* min(100, (dose / turbidity) * 500) when the defuzzified dose is greater
\* than 0, which is when a rule fires and needs turbidity > 0, and the
\* midpoint 50 when no rule fires, whatever the turbidity.
C18_ProcessFactorByDose ==
    \A c \in DOMAIN fisLog :
        LET inputs == fisLog[c].inputs
            out == fisLog[c].outputs
            dose == DefuzzifiedDose(inputs)
        IN  /\ RLt(Zero, dose) <=> out.ruleActivations # <<>>
            /\ RLt(Zero, dose) => RLt(Zero, inputs.turbidity)
            /\ out.qualityScore =
                 QualityWith(inputs, IF RLt(Zero, dose)
                                     THEN DoseRatioFactor(inputs) ELSE Num(50))

\* a call with turbidity > 0 in which no rule fires and the factor is 50, and
\* a call in which rules fire and the dose ratio is below the cap of 100
C18_Witness ==
    /\ \E c \in DOMAIN fisLog :
         /\ RLt(Zero, fisLog[c].inputs.turbidity)
         /\ fisLog[c].outputs.ruleActivations = <<>>
         /\ fisLog[c].outputs.qualityScore = QualityWith(fisLog[c].inputs, Num(50))
         /\ fisLog[c].outputs.qualityScore # QualityWith(fisLog[c].inputs, Zero)
    /\ \E c \in DOMAIN fisLog :
         /\ fisLog[c].outputs.ruleActivations # <<>>
         /\ RLt(DoseRatioFactor(fisLog[c].inputs), Num(100))

(***************************************************************************)
(* Claims about the centroid update and the history of runFCM (SpecFCM).   *)
(***************************************************************************)
\* a step of the main loop: one more pass is logged
PassStep == pc = "Iterating" /\ Len(passLog') = Len(passLog) + 1

\* the weight sum of cluster j under a membership matrix
WeightSum(rows, j, m) == RSum(Array([i \in DOMAIN rows |-> Pow(rows[i][j], m)]))

\* the membership^m-weighted mean of the points for cluster j
WeightedMean(points, rows, j, m) ==
    Array([d \in 1..Len(points[1]) |->
        Fl(RDiv(RSum(Array([i \in DOMAIN points |->
                               Fl(RMul(Pow(rows[i][j], m), points[i][d]))])),
                WeightSum(rows, j, m)))])

\* C19: in the centroid update a cluster whose weight sum is 0 keeps the
\* centroid it had before the update, and every other cluster's centroid
\* becomes the membership^m-weighted mean of the points.
C19_ZeroWeightKeepsCentroid ==
    [][PassStep =>
          \A j \in 1..config.clusterCount :
              IF WeightSum(memberships', j, config.fuzziness) = Zero
              THEN centroids'[j] = centroids[j]
              ELSE centroids'[j] = WeightedMean(data, memberships', j, config.fuzziness)]_vars

\* C19 as the code has it: a cluster whose weight sum is 0 gets the sums it
\* accumulated, which are all 0, so its centroid moves to the origin
C19_ZeroWeightGivesOrigin ==
    [][PassStep =>
          \A j \in 1..config.clusterCount :
              IF WeightSum(memberships', j, config.fuzziness) = Zero
              THEN centroids'[j] = [d \in 1..Len(data[1]) |-> Zero]
              ELSE centroids'[j] = WeightedMean(data, memberships', j, config.fuzziness)]_vars

\* a pass has left a cluster without weight and its centroid is not the seed
C19_ZeroWeightReached ==
    /\ Len(passLog) = 1
    /\ \E j \in 1..config.clusterCount :
         /\ WeightSum(memberships, j, config.fuzziness) = Zero
         /\ centroids[j] # data[seeds[j]]

\* the history a call has built so far, as the claim describes it
HistoryMatchesPasses ==
    IF config.trackHistory
    THEN /\ Len(iterationHistory) = iteration
         /\ iteration <= config.maxIterations
         /\ \A p \in DOMAIN iterationHistory : iterationHistory[p].iteration = p - 1
    ELSE iterationHistory = <<>>

\* C20: with trackHistory set runFCM appends one snapshot per loop pass, so
\* the returned iterationHistory has length iterationCount (at most
\* maxIterations) and its entry at position i has iteration index i (counted
\* from 0), and no pass changes an earlier snapshot; with trackHistory unset
\* the history is empty.
C20_OneSnapshotPerPass ==
    /\ [](pc \in {"Iterating", "Converged", "MaxIterationsReached"} => HistoryMatchesPasses)
    /\ [](Returned =>
            /\ fcmResult[1].iterationHistory = iterationHistory
            /\ config.trackHistory =>
                 Len(fcmResult[1].iterationHistory) = fcmResult[1].iterationCount
            /\ fcmResult[1].iterationCount <= config.maxIterations)
    /\ [][/\ PassStep /\ config.trackHistory => Len(iterationHistory') = Len(iterationHistory) + 1
          /\ \A p \in DOMAIN iterationHistory :
               /\ p \in DOMAIN iterationHistory'
               /\ iterationHistory'[p] = iterationHistory[p]]_vars

\* a returned history of two or more snapshots, one per pass, the first two
\* with different membership matrices
C20_Witness ==
    /\ Returned
    /\ config.trackHistory
    /\ fcmResult[1].iterationCount >= 2
    /\ Len(fcmResult[1].iterationHistory) = fcmResult[1].iterationCount
    /\ fcmResult[1].iterationHistory[1].membershipMatrix
         # fcmResult[1].iterationHistory[2].membershipMatrix

\* C21: the convergenceError runFCM returns is the largest absolute
\* membership change of the last executed pass, with or without
\* trackHistory; hence converged = false implies convergenceError >= tolerance.
C21_ConvergenceErrorIsLastChange ==
    (Returned /\ passLog # <<>>) =>
        /\ fcmResult[1].convergenceError = passLog[Len(passLog)]
        /\ ~fcmResult[1].converged => RLe(config.tolerance, fcmResult[1].convergenceError)

\* C21 as the code has it: the last change with trackHistory, 0 without
C21_ConvergenceErrorFromHistory ==
    (Returned /\ passLog # <<>>) =>
        fcmResult[1].convergenceError =
            IF config.trackHistory THEN passLog[Len(passLog)] ELSE Zero

\* the failing call: two points, one pass, no history, not converged
C21_ZeroErrorReturned ==
    /\ Returned
    /\ data = << <<Num(0)>>, <<Num(4)>> >>
    /\ config = [clusterCount |-> 2, fuzziness |-> Fuzziness, maxIterations |-> 1,
                 tolerance |-> Rat(1, 100), trackHistory |-> FALSE]
    /\ passLog = <<Rat(1, 2)>>
    /\ ~fcmResult[1].converged
    /\ fcmResult[1].convergenceError = Zero

(***************************************************************************)
(* Claims about the left edge of a trapezoidal set (SpecMembership).       *)
(***************************************************************************)
\* C22: for every trapezoidal set with a = b, calculateMembership(a, set) = 1:
\* the membership is full at a vertical left edge.
C22_VerticalLeftEdgeIsFull ==
    (/\ mResult # NoNumber
     /\ mSet.points[1] = mSet.points[2]
     /\ mValue = mSet.points[1]) => mResult = One

\* C22 as the code has it: the membership at a is 0, whatever b is
C22_LeftEdgeIsZero ==
    (mResult # NoNumber /\ mValue = mSet.points[1]) => mResult = Zero

\* the set [0, 0, 1, 2] evaluated at 0 gives 0
C22_ZeroAtVerticalEdge ==
    /\ mResult # NoNumber
    /\ mSet.points = <<Num(0), Num(0), Num(1), Num(2)>>
    /\ mValue = Num(0)
    /\ mResult = Zero


(***************************************************************************)
(* Claims about the diagnostics store (SpecDiagnostics).                   *)
(***************************************************************************)
\* processedPoints are the store's dataPoints, in order, each with its row
\* of the result's membership matrix
ProcessedFromData ==
    /\ Len(processedPoints) = Len(dataPoints)
    /\ Len(storeResult.membershipMatrix) = Len(dataPoints)
    /\ \A i \in DOMAIN dataPoints :
         /\ processedPoints[i].id = dataPoints[i].id
         /\ processedPoints[i].features = dataPoints[i].features
         /\ processedPoints[i].memberships = storeResult.membershipMatrix[i]

\* C23: whenever the store holds a result, the result and processedPoints
\* come from the store's current dataPoints: processedPoints has the ids of
\* dataPoints in the same order, also when generateSynthetic, importCSV or
\* clearData ran between runClustering and its callback.
C23_ResultFromCurrentData == storeResult # Null => ProcessedFromData

\* C23: the callback of a runClustering call has stored a result although
\* clearData emptied dataPoints after the call.
C23_StaleResultStored ==
    storeResult # Null /\ dataPoints = <<>> /\ Len(processedPoints) = 2


\* C23: what the callback does keep: processedPoints and the result belong
\* together, each processed point carrying its row of the result's matrix.
C23_ProcessedFromResult ==
    storeResult # Null =>
        /\ Len(processedPoints) = Len(storeResult.membershipMatrix)
        /\ \A i \in DOMAIN processedPoints :
             processedPoints[i].memberships = storeResult.membershipMatrix[i]


\* C24: after any sequence of store actions animation.currentFrame lies in
\* [0, max(0, totalFrames - 1)]: it is never negative and, when there are
\* frames, it is the index of one.
C24_CurrentFrameInRange ==
    /\ animation.currentFrame >= 0
    /\ animation.currentFrame <=
         (IF animation.totalFrames - 1 > 0 THEN animation.totalFrames - 1 ELSE 0)

\* C24: stepForward on a store that holds no result has made currentFrame -1.
C24_NegativeFrameWithoutResult ==
    storeResult = Null /\ animation.totalFrames = 0 /\ animation.currentFrame = -1

\* C24: the frame never leaves [-1, max(0, totalFrames - 1)].
C24_CurrentFrameAtLeastMinusOne ==
    /\ animation.currentFrame >= -1
    /\ animation.currentFrame <=
         (IF animation.totalFrames - 1 > 0 THEN animation.totalFrames - 1 ELSE 0)


\* C25: whenever the result is null the animation is in its default state
\* (totalFrames 0, currentFrame 0, not playing), and isPlaying is true only
\* while the store holds a result with a non-empty iterationHistory.
C25_NoResultNoAnimation ==
    /\ storeResult = Null =>
         /\ animation.totalFrames = 0
         /\ animation.currentFrame = 0
         /\ animation.isPlaying = FALSE
    /\ animation.isPlaying =>
         storeResult # Null /\ Len(storeResult.iterationHistory) > 0

\* C25: new data has replaced the data of a result whose animation was
\* playing: no result, and the animation still plays the old frames.
C25_PlayingWithoutResult ==
    storeResult = Null /\ dataPoints # <<>> /\ animation.isPlaying /\ animation.totalFrames > 0


\* the runFCM call of the callback that runs next throws
CallbackThrows == timers # <<>> /\ \A outcome \in ClusteringRun(timers[1]) : IsThrown(outcome)

\* C26: a callback whose runFCM call throws sets isRunning to false and
\* leaves result, processedPoints and animation as they were; and after
\* every runClustering call isRunning returns to false: while it is true a
\* callback is waiting, every callback that runs makes it false, and under
\* the timer's scheduling it becomes false.
C26_ThrowKeepsResult ==
    /\ [][CallbackRuns /\ CallbackThrows =>
            /\ isRunning' = FALSE
            /\ UNCHANGED <<storeResult, processedPoints, animation>>]_vars
    /\ [](isRunning => timers # <<>>)
    /\ [][CallbackRuns => isRunning' = FALSE]_vars
    /\ (isRunning ~> ~isRunning)

\* C26: a callback has thrown on a store that held a result with frames,
\* and the result is still there
C26_Witness ==
    /\ lastCallback = "threw"
    /\ ~isRunning
    /\ storeResult # Null
    /\ processedPoints # <<>>
    /\ animation.totalFrames > 0


\* C26, the scheduling part alone
C26_RunningEnds == isRunning ~> ~isRunning


(***************************************************************************)
(* Claims about the water store (SpecWater, SpecWaterFramed).              *)
(***************************************************************************)
\* the stored outputs and memberships are those of the stored parameters
InferenceOfStored ==
    /\ fuzzyOutputs = runFuzzyInference(StoredInputs, FUZZY_RULES, Catalogues)
    /\ waterMemberships = getMembershipDegrees(StoredInputs, Catalogues)

\* the stored parameters are those of a keyframe
StoredIs(keyframe) ==
    /\ waterTurbidity = keyframe.turbidity
    /\ waterPh = keyframe.ph
    /\ waterTemperature = keyframe.temperature

\* an updateSimulation step with a positive deltaTime on a running simulation
RunningUpdate(deltaTime) ==
    /\ isSimulating
    /\ currentScenario # Null
    /\ RLt(Zero, deltaTime)
    /\ updateSimulation(deltaTime)

\* C27: while a scenario is loaded the elapsed time is below its duration;
\* an updateSimulation call with positive deltaTime on a running simulation
\* either moves the elapsed time up by deltaTime * speed, staying below the
\* duration, or, when that sum reaches the duration, stores the final
\* keyframe's turbidity, ph and temperature with their inference and ends
\* with isSimulating false, no scenario and elapsed time 0; and a running
\* simulation does not stay at an elapsed time for ever: again and again
\* it is not running or its elapsed time changes.
C27_SimulationRunsToItsEnd ==
    /\ [](currentScenario # Null =>
            RLt(simulationElapsedTime, currentScenario.duration))
    /\ [][\A deltaTime \in DeltaTimes :
            RunningUpdate(deltaTime) =>
                LET sum == RAdd(simulationElapsedTime, RMul(deltaTime, simulationSpeed))
                    keyframes == currentScenario.keyframes
                IN  IF RLe(currentScenario.duration, sum)
                    THEN /\ waterTurbidity' = keyframes[Len(keyframes)].turbidity
                         /\ waterPh' = keyframes[Len(keyframes)].ph
                         /\ waterTemperature' = keyframes[Len(keyframes)].temperature
                         /\ fuzzyOutputs' =
                              runFuzzyInference(keyframes[Len(keyframes)], FUZZY_RULES,
                                                Catalogues)
                         /\ ~isSimulating'
                         /\ currentScenario' = Null
                         /\ simulationElapsedTime' = Zero
                    ELSE /\ simulationElapsedTime' = sum
                         /\ RLt(simulationElapsedTime, simulationElapsedTime')
                         /\ isSimulating'
                         /\ UNCHANGED currentScenario]_vars
    /\ ([]<>(~isSimulating) \/ []<><<TRUE>>_simulationElapsedTime)

\* C27, the scheduling part alone
C27_SimulationMovesOn ==
    []<>(~isSimulating) \/ []<><<TRUE>>_simulationElapsedTime

\* C27: the storm scenario has run to its end: its final keyframe is stored
\* with its inference, and no simulation is loaded
C27_Witness ==
    /\ StoredIs(STORM_SCENARIO.keyframes[Len(STORM_SCENARIO.keyframes)])
    /\ InferenceOfStored
    /\ ~isSimulating
    /\ currentScenario = Null
    /\ simulationElapsedTime = Zero
    /\ simulationSpeed = One


\* C28: isSimulating is true only while a scenario is loaded;
\* pauseSimulation and resumeSimulation change nothing but isSimulating,
\* and resumeSimulation changes nothing at all when no scenario is loaded.
C28_SimulatingNeedsScenario ==
    /\ [](isSimulating => currentScenario # Null)
    /\ [][pauseSimulation \/ resumeSimulation =>
            UNCHANGED <<waterTurbidity, waterPh, waterTemperature, fuzzyOutputs,
                        waterMemberships, currentScenario, simulationStartTime,
                        simulationElapsedTime, simulationSpeed, waterHistory,
                        maxHistoryLength>>]_vars
    /\ [][pauseSimulation => ~isSimulating']_vars
    /\ [][resumeSimulation =>
            IF currentScenario = Null THEN UNCHANGED isSimulating ELSE isSimulating']_vars

\* C28: a paused simulation: the scenario is loaded and has run for a while,
\* and isSimulating is false
C28_Witness ==
    /\ ~isSimulating
    /\ currentScenario # Null
    /\ RLt(Zero, simulationElapsedTime)


\* C29: after every action that sets turbidity, ph or temperature the stored
\* parameters lie in [0, 1000], [0, 14] and [0, 40], and fuzzyOutputs and
\* memberships are runFuzzyInference and getMembershipDegrees of the stored
\* parameters (no action changes the parameters without running the
\* inference, so this holds in every state in which an inference has run).
C29_ParametersInRangeAndInferred ==
    /\ RLe(Zero, waterTurbidity) /\ RLe(waterTurbidity, Num(1000))
    /\ RLe(Zero, waterPh) /\ RLe(waterPh, Num(14))
    /\ RLe(Zero, waterTemperature) /\ RLe(waterTemperature, Num(40))
    /\ fuzzyOutputs # Null => InferenceOfStored

\* C29: values outside the ranges were given and the bounds of the ranges
\* are stored, with their inference
C29_Witness ==
    /\ waterTurbidity = Num(1000)
    /\ waterPh = Num(14)
    /\ waterTemperature = Zero
    /\ fuzzyOutputs # Null
    /\ fuzzyOutputs.riskLevel = "critical"


\* the point the inference of a step has made: the stored parameters and
\* outputs after the step
PointAfter ==
    [qualityScore |-> fuzzyOutputs'.qualityScore,
     turbidity |-> waterTurbidity',
     ph |-> waterPh',
     temperature |-> waterTemperature',
     operationalCost |-> fuzzyOutputs'.operationalCost]

\* C30: the history never holds more than maxHistoryLength points; a step
\* changes it only by emptying it or by putting the point of the step's
\* inference at its end, after dropping exactly its oldest point when it is
\* full, so the points stand in insertion order; reset keeps the history
\* (its inference adds a point in the same way); and a history that held
\* points is emptied by clearHistory only.
C30_HistoryIsBoundedQueue ==
    /\ [](Len(waterHistory) <= maxHistoryLength)
    /\ [][waterHistory' # waterHistory =>
            \/ waterHistory' = <<>>
            \/ /\ Len(waterHistory) < maxHistoryLength
               /\ waterHistory' = Append(waterHistory, PointAfter)
            \/ /\ Len(waterHistory) = maxHistoryLength
               /\ waterHistory' = Append(Tail(waterHistory), PointAfter)]_vars
    /\ [][reset =>
            waterHistory' = IF Len(waterHistory) < maxHistoryLength
                            THEN Append(waterHistory, PointAfter)
                            ELSE Append(Tail(waterHistory), PointAfter)]_vars
    /\ [][waterHistory # <<>> /\ waterHistory' = <<>> => clearHistory]_vars

\* C30: a full history that has dropped points: its oldest point was taken
\* at turbidity 1000, ph 14, temperature 0, which takes two inferences to
\* reach, and a reset has added the newest
C30_Witness ==
    /\ Len(waterHistory) = maxHistoryLength
    /\ waterHistory[1].turbidity = Num(1000)
    /\ waterHistory[1].ph = Num(14)
    /\ waterHistory[1].temperature = Zero
    /\ waterHistory[Len(waterHistory)].turbidity = Num(50)
    /\ waterHistory[Len(waterHistory)].qualityScore = fuzzyOutputs.qualityScore

=============================================================================
